---- MODULE Spec2Model ----
(***************************************************************************)
(* Model of the Chatbot_Agent orchestration loop (orchestrator.py, and its *)
(* variants in orchestrator_enhanced.py and main.py), of the agent         *)
(* registry, of the example matcher (examples.py) and of the               *)
(* cooldown-gated database updater (smart_db_updater.py, in its two        *)
(* copies under agents/fusion_Analytics and agents/org_Chart).             *)
(***************************************************************************)
EXTENDS Integers, Sequences, FiniteSets, TLC

(***************************************************************************)
(* Bounds of the exploration.                                              *)
(***************************************************************************)
\* manager decisions explored per orchestrate call
MaxDecisions == 3

\* longest conversation history a caller hands to orchestrate
MaxHistory == 7

\* longest conversation history handed to the orchestrate of main.py
MaxMainTurns == 3

\* largest example set handed to match_example_request
MaxExamples == 3

\* register / register_agents calls explored in one behaviour
MaxRegistrations == 3

(***************************************************************************)
(* Python values.  A dict is a record; None in a dict position is the      *)
(* one-field record NoneValue, None in a scalar position is PyNone.        *)
(***************************************************************************)
NoneValue == [py_none |-> TRUE]

PyNone == "None"

\* Python truthiness of a response (None is falsy, a non-empty dict truthy)
Truthy(v) == v # NoneValue

\* dict.get(key): the value, or None when the key is missing
Get(d, k) == IF k \in DOMAIN d THEN d[k] ELSE PyNone

\* d[k] = v on a dict keyed by agent name
Put(d, k, v) == [x \in (DOMAIN d) \cup {k} |-> IF x = k THEN v ELSE d[x]]

EmptyDict == [x \in {} |-> NoneValue]

\* the str "" in a position that later holds a dict
EmptyString == [py_str |-> ""]

(***************************************************************************)
(* Agent registry (agents/registry).                                       *)
(***************************************************************************)
\* the names register_agents() puts into AGENT_REGISTRY
AGENT_REGISTRY ==
    {"PageNavigatorAgent", "GeneralQAAgent", "FusionAnalyticsAgent",
     "AbsenceAnalyticsAgent", "OrgChartAgent", "ManagerAgent"}

\* the strings s for which the Python test  s in ("Manager")  is true:
\* ("Manager") is a plain string, so the test is a substring test
SubstringsOfManager ==
    {"", "M", "a", "n", "g", "e", "r", "Ma", "an", "na", "ag", "ge", "er",
     "Man", "ana", "nag", "age", "ger", "Mana", "anag", "nage", "ager",
     "Manag", "anage", "nager", "Manage", "anager", "Manager"}

\* keys of get_agent_descriptions()
get_agent_descriptions == {name \in AGENT_REGISTRY : name \notin SubstringsOfManager}

\* get_agent(name) is None
get_agent_is_None(name) == name \notin AGENT_REGISTRY

(***************************************************************************)
(* Values the opaque decision functions can return.                        *)
(***************************************************************************)
\* names a manager decision can carry in next_agent
DecisionAgents ==
    {"PageNavigatorAgent", "FusionAnalyticsAgent", "GeneralQAAgent",
     "ManagerAgent", "END", "NoSuchAgent"}

\* ManagerDecision as a json_dict
ManagerDecision ==
    [next_agent : DecisionAgents, next_task_description : {"task"}, stop : BOOLEAN]

\* json_dicts of the manager crew that lack one of the three fields
MalformedDecision ==
    [next_agent : {"FusionAnalyticsAgent", "END"}, next_task_description : {"task"}]
      \cup [next_agent : {"FusionAnalyticsAgent"}, stop : BOOLEAN]
      \cup [next_task_description : {"task"}, stop : BOOLEAN]

\* the three fields of a ManagerDecision
DecisionFields == {"next_agent", "next_task_description", "stop"}

\* QAResponse json_dict values of the summarizer, or None
QAResponse == {[response |-> "summary"], NoneValue}

\* json_dict a worker crew can return for the agent's output contract, or None
AgentOutputs(name) ==
    CASE name = "PageNavigatorAgent" ->
            {[response |-> "open the dashboard", navigation_link |-> "/dashboard"],
             NoneValue}
      [] name = "FusionAnalyticsAgent" ->
            {[query_executed |-> "q1", User_Frendly_response |-> "u1", HTML_TABLE_DATA |-> "<table>1</table>"],
             [query_executed |-> "q2", User_Frendly_response |-> "Please specify the department",
              HTML_TABLE_DATA |-> "<table>2</table>"],
             NoneValue}
      [] name = "GeneralQAAgent" -> QAResponse
      [] OTHER -> {NoneValue}

(***************************************************************************)
(* State of one orchestrate() call.                                        *)
(***************************************************************************)
VARIABLES
    pc,               \* "start" | "loop" | "done" | "error": position of orchestrate
    history,          \* run history: sequence of [agent, output]
    final_outputs,    \* dict agent name -> json_dict
    latest_response,  \* last worker response ("" before any)
    next_agent_name,  \* whose turn it is
    stop,             \* loop flag
    returned,         \* value returned by orchestrate (once pc = "done")
    error,            \* exception raised by orchestrate (once pc = "error")
    managerCalls,     \* number of manager_crew.kickoff() calls
    workerCalls,      \* number of worker_crew.kickoff() calls
    summarizerCalls,  \* number of final_crew.kickoff() calls
    endedBy           \* "none" | "example" | "stop" | "convergence" | "needs_input" | "error"

orchVars == <<pc, history, final_outputs, latest_response, next_agent_name, stop,
              returned, error, managerCalls, workerCalls, summarizerCalls, endedBy>>

\* state of one SmartDBUpdater module and of the threads calling update_now
VARIABLES
    variant,            \* which smart_db_updater module
    cooldown_seconds,   \* self.cooldown_seconds
    update_function,    \* TRUE when self.update_function is set
    now,                \* datetime.now(), in seconds
    LAST_UPDATE_TIME,
    UPDATE_COUNT,
    UPDATE_IN_PROGRESS,
    update_lock,        \* thread holding _update_lock, or NoThread
    tpc,                \* per thread: position inside update_now
    force,              \* per thread: the force argument
    result,             \* per thread: "none" | "True" | "False" | "raised"
    outcome,            \* per thread: outcome of its callback invocation, "none" before
    busyAtCheck,        \* per thread: another caller was mid-refresh at its check
    overlapped,         \* per thread: threads whose call overlapped this call
    countAtMark,        \* per thread: UPDATE_COUNT when it marked in-progress
    callsMade,          \* update_now calls started
    callbackRuns,       \* invocations of the refresh callback
    lastUnforcedOk,     \* time of the latest successful unforced update, or NoTime
    can_update_now      \* value should_update() just returned, "unset" otherwise

gateVars == <<variant, cooldown_seconds, update_function, now, LAST_UPDATE_TIME,
              UPDATE_COUNT, UPDATE_IN_PROGRESS, update_lock, tpc, force, result,
              outcome, busyAtCheck, overlapped, countAtMark, callsMade,
              callbackRuns, lastUnforcedOk, can_update_now>>

\* the call of orchestrate: its module, its arguments and what it derives
\* from them before the loop
VARIABLES
    module,                  \* "none" | "orchestrator" | "orchestrator_enhanced" | "main"
    caller_history,          \* the caller's conversation_history list object
    history_at_call,         \* contents of that list when orchestrate was called
    conversation_history,    \* the local name conversation_history inside orchestrate
    passed_history,          \* conversation histories handed to manager and worker steps
    trimCalls,               \* number of trim_history calls
    next_task_description,
    matched_example,         \* index of the matched example, 0 for None
    ENABLE_USER_INTERACTION, \* module global of orchestrator_enhanced
    interactive,             \* the interactive argument of the enhanced orchestrate
    otherCalls               \* concurrent orchestrate calls that have begun

callVars == <<module, caller_history, history_at_call, conversation_history,
              passed_history, trimCalls, next_task_description, matched_example,
              ENABLE_USER_INTERACTION, interactive, otherCalls>>

\* AGENT_REGISTRY as register() calls build it
VARIABLES
    registry,     \* the dict AGENT_REGISTRY: name -> AgentInfo
    lastCall,     \* arguments of the most recent registry call
    regCalls      \* registry calls made

regVars == <<registry, lastCall, regCalls>>

\* one call of match_example_request
VARIABLES
    match_ratios,     \* similarity ratio of each example, in tenths
    match_threshold,  \* the threshold argument, in tenths
    match_result      \* index of the returned example, 0 for None

matchVars == <<match_ratios, match_threshold, match_result>>

\* one call of check_convergence
VARIABLES
    conv_history,   \* the history argument
    conv_N,         \* the N argument
    conv_result     \* "unset" | "True" | "False"

convVars == <<conv_history, conv_N, conv_result>>

\* the data-backed query tools and the gates they consult
VARIABLES
    fusion_update_function,  \* what set_update_function last registered on the fusion gate
    tool_time,      \* datetime.now(), in seconds
    gate_last,      \* per smart_db_updater module: LAST_UPDATE_TIME
    gate_count,     \* per smart_db_updater module: UPDATE_COUNT
    refreshes,      \* per tool: external refreshes its queries have triggered
    refreshed_at,   \* per tool: time of its latest successful refresh, or NoTime
    queries,        \* tool queries made
    last_query      \* the latest query: tool, refreshes it triggered, what it saw

toolVars == <<fusion_update_function, tool_time, gate_last, gate_count, refreshes, refreshed_at, queries,
              last_query>>

\* the global IterationTracker and the runs that use it
VARIABLES
    agent_tracks,            \* dict agent name -> list of iterations
    current_agent,
    current_iteration,
    current_iteration_data,  \* the active iteration, NoData for {}
    tracker_lock,            \* run holding self.lock for good, or NoThread
    run_pc,                  \* per run: "idle" | "executing" | "ended" | "deadlocked"
    run_agent,               \* per run: the agent it started tracking
    track_internal,          \* per run: what end_agent_execution returned to it
    trackerCalls             \* tracker calls made

trackerVars == <<agent_tracks, current_agent, current_iteration, current_iteration_data,
                 tracker_lock, run_pc, run_agent, track_internal, trackerCalls>>

\* an APIKeyManager
VARIABLES
    api_keys,            \* number of keys; the keys are 0..api_keys-1, in list
                         \* order; 0 before the manager is constructed
    current_key_index,
    failed_keys,
    key_cooldown,        \* dict key -> time it was marked failed
    cooldown_duration,
    key_time,            \* time.time(), in seconds
    got_key,             \* what the latest get_current_key returned, NoKey before
    usable_at_get,       \* keys not failed when that call looked for one
    cooling_at_get,      \* keys marked failed less than the cooldown before that call
    marked_at,           \* per key: time of its latest mark_key_as_failed, or NoTime
    keyCalls             \* manager calls made

keyVars == <<api_keys, current_key_index, failed_keys, key_cooldown, cooldown_duration,
             key_time, got_key, usable_at_get, cooling_at_get, marked_at, keyCalls>>

\* one method call through RobustLLM
VARIABLES
    llm_pc,            \* "idle" | "calling" | "returned" | "raised"
    attempt,           \* iterations of the retry loop begun
    invocations,       \* calls of the underlying LLM method
    current_llm_key,   \* key _current_llm was created with
    llm_error,         \* what the call raised, "none" otherwise
    last_outcome,      \* outcome of the latest invocation
    marked,            \* keys marked failed during the call, in order
    kickoffs           \* crew.kickoff() calls of the step

llmVars == <<llm_pc, attempt, invocations, current_llm_key, llm_error, last_outcome,
             marked, kickoffs>>

\* everything outside orchestrate, the gate, the registry and the matcher
moreVars == <<convVars, toolVars, trackerVars, keyVars, llmVars>>

\* orchestrate, the gate, the registry and the matcher
baseVars == <<orchVars, gateVars, callVars, regVars, matchVars>>

vars == <<baseVars, moreVars>>

NonWorker == {"ManagerAgent", "GeneralQAAgent"}

Reverse(s) == [i \in 1..Len(s) |-> s[Len(s) + 1 - i]]

Take(s, n) == SubSeq(s, 1, IF Len(s) < n THEN Len(s) ELSE n)

IsWorkerEntry(e) == e.agent \notin NonWorker

\* [entry["output"] for entry in reversed(history) if entry.get("agent") not in (...)]
ReversedWorkerOutputs(h) ==
    LET es == SelectSeq(Reverse(h), IsWorkerEntry)
    IN  [i \in 1..Len(es) |-> es[i].output]

\* check_convergence with the length guard one entry per output too high
check_convergence_long_guard(h, N) ==
    IF Len(h) >= N * 3
    THEN LET last_outputs == Take(ReversedWorkerOutputs(h), N)
         IN  /\ Len(last_outputs) = N
             /\ \A i \in 1..Len(last_outputs) : last_outputs[i] = last_outputs[1]
    ELSE FALSE

check_convergence(h, N) ==
    IF Len(h) >= N * 2
    THEN LET last_outputs == Take(ReversedWorkerOutputs(h), N)
         IN  /\ Len(last_outputs) = N
             /\ \A i \in 1..Len(last_outputs) : last_outputs[i] = last_outputs[1]
    ELSE FALSE

\* the search for the last worker result finding nothing
last_agent_result_none(h) == NoneValue

\* the loop of handle_convergence / handle_manager_stop: output of the most
\* recent entry that is neither manager nor summarizer, None when there is none
last_agent_result(h) ==
    LET outs == ReversedWorkerOutputs(h)
    IN  IF Len(outs) = 0 THEN NoneValue ELSE outs[1]

filter_output(f) ==
    [agent_name \in DOMAIN f |->
        IF f[agent_name] = NoneValue THEN PyNone
        ELSE IF agent_name = "PageNavigatorAgent" THEN Get(f[agent_name], "navigation_link")
        ELSE IF agent_name = "SQLBuilderAgent" THEN Get(f[agent_name], "HTML_TABLE_DATA")
        ELSE Get(f[agent_name], "response")]

\* filter_output of main.py, on a final output map without a None under
\* PageNavigatorAgent: the link for the navigator, SQLBuilderAgent skipped,
\* every other response kept whole
main_filter_output(f) ==
    [agent_name \in (DOMAIN f) \ {"SQLBuilderAgent"} |->
        IF agent_name = "PageNavigatorAgent"
        THEN [value |-> Get(f[agent_name], "navigation_link")]
        ELSE f[agent_name]]

\* main.py: response.get("navigation_link") on a None response
main_filter_raises(f) ==
    "PageNavigatorAgent" \in DOMAIN f /\ f["PageNavigatorAgent"] = NoneValue

(***************************************************************************)
(* Conversation history (the caller's list of turns).                      *)
(***************************************************************************)
\* MAX_MESSAGES = 2 * 3 of orchestrator.py
MAX_MESSAGES == 6

\* MAX_MESSAGES = 2 * 10 of orchestrator_enhanced.py
MAX_MESSAGES_enhanced == 20

\* MAX_HISTORY_CHARS of main.py
MAX_HISTORY_CHARS == 6000

\* the i-th turn of a chat: users and assistants alternate; content names the
\* text, chars is len(str(content))
Turn(i, c) ==
    [role |-> IF i % 2 = 1 THEN "user" ELSE "assistant", content |-> i, chars |-> c]

\* conversation histories a caller of orchestrator.py hands over
CallerHistories == {[i \in 1..n |-> Turn(i, 10)] : n \in 0..MaxHistory}

\* conversation histories a caller of main.py hands over: up to MaxMainTurns
\* turns of 1000 or 4000 characters
MainHistories ==
    UNION {{[i \in 1..n |-> Turn(i, cs[i])] : cs \in [1..n -> {1000, 4000}]} :
              n \in 0..MaxMainTurns}

\* the Python slice s[-n:] for n > 0
SliceLast(s, n) == IF n >= Len(s) THEN s ELSE SubSeq(s, Len(s) - n + 1, Len(s))

\* trim_history keeping the head instead of the tail
trim_history_head(conversation, max_messages) ==
    IF Len(conversation) <= max_messages THEN conversation
    ELSE SubSeq(conversation, 1, max_messages)

\* trim_history; max_messages is the module's MAX_MESSAGES
trim_history(conversation, max_messages) ==
    IF Len(conversation) <= max_messages THEN conversation
    ELSE SliceLast(conversation, max_messages)

\* the prefix format_conversation_history puts before the content of a turn
RolePrefix(role) ==
    CASE role = "user" -> "User: "
      [] role = "assistant" -> "Assistant: "
      [] role = "summary" -> "Summary of earlier conversation:\n"
      [] OTHER -> "Other: "

\* the formatted text, as its sequence of "\n"-joined lines
format_conversation_history(conversation) ==
    [i \in 1..Len(conversation) |->
        [prefix |-> RolePrefix(conversation[i].role), content |-> conversation[i].content]]

RECURSIVE SumChars(_)
\* history_length(hist) of main.py
SumChars(hist) == IF Len(hist) = 0 THEN 0 ELSE hist[1].chars + SumChars(Tail(hist))

RECURSIVE prune_history(_)
\* the while loop of main.py's orchestrate: pop(0) until under the limit, and
\* a second pop(0) when an assistant turn is then at the front
prune_history(hist) ==
    IF SumChars(hist) > MAX_HISTORY_CHARS /\ Len(hist) > 2
    THEN LET h1 == Tail(hist)
         IN  IF Len(h1) > 0 /\ h1[1].role = "assistant"
             THEN prune_history(Tail(h1))
             ELSE prune_history(h1)
    ELSE hist

\* json.dumps(conversation_history) of main.py
json_dumps(conversation) == [json |-> conversation]

\* conversation_history before orchestrate has assigned it
NoHistory == <<>>

(***************************************************************************)
(* Fast path (examples.py).  Similarity ratios are in tenths.              *)
(***************************************************************************)
\* the saved examples, cut down to two
examples ==
    <<[user_request |-> "What does the Dashboard page show?",
       filtered_output |-> [GeneralQAAgent |-> "The Dashboard page provides ..."]],
      [user_request |-> "List all active administrators.",
       filtered_output |-> [SQLBuilderAgent |-> "<table>admins</table>",
                            GeneralQAAgent |-> "Here are the administrators"]]>>

\* threshold=0.5, the default of match_example_request
DefaultThreshold == 5

\* ratios difflib can report for the request against the two examples
ExampleRatios == [1..Len(examples) -> {3, 5, 8}]

\* ratios and thresholds match_example_request is explored with
RatioValues == {0, 4, 5, 10}

RatioLists == UNION {[1..n -> RatioValues] : n \in 0..MaxExamples}

RECURSIVE match_loop(_, _, _, _)
\* the for loop of match_example_request from example i on:
\* <<best_match, best_ratio>> at its end
match_loop(ratios, i, best_match, best_ratio) ==
    IF i > Len(ratios) THEN <<best_match, best_ratio>>
    ELSE IF ratios[i] > best_ratio
         THEN match_loop(ratios, i + 1, i, ratios[i])
         ELSE match_loop(ratios, i + 1, best_match, best_ratio)

\* match_example_request(user_request, examples, threshold): ratios[i] is
\* similarity_ratio(normalize(user_request), normalize(examples[i])); the
\* result is the index of the example, 0 for None
match_example_request(ratios, threshold) ==
    LET best == match_loop(ratios, 1, 0, 0)
    IN  IF best[2] >= threshold THEN best[1] ELSE 0

\* the fast path returning the first example whatever matched
matched_output_first(m) == examples[1].filtered_output

\* return matched_example["filtered_output"]
matched_output(m) == examples[m].filtered_output

(***************************************************************************)
(* User interaction (orchestrator_enhanced.py).                            *)
(***************************************************************************)
\* response texts that contain one of the asking_patterns
AskingTexts == {"Please specify the department"}

\* response_text of detect_missing_information (the fields are non-empty
\* strings when present, so `or` takes the first one present)
response_text(agent_response) ==
    IF "response" \in DOMAIN agent_response THEN agent_response.response
    ELSE IF "User_Frendly_response" \in DOMAIN agent_response
         THEN agent_response.User_Frendly_response
         ELSE "str(agent_response)"

\* detect_missing_information on a dict: the question, or None
detect_missing_information(agent_response) ==
    IF response_text(agent_response) \in AskingTexts
    THEN response_text(agent_response)
    ELSE PyNone

NoError == [kind |-> "none"]

NotReturned == [x \in {"<not returned>"} |-> PyNone]

\* AGENT_REGISTRY as the registrations at the top of main.py leave it
MAIN_REGISTRY == {"PageNavigatorAgent", "SQLBuilderAgent", "GeneralQAAgent", "ManagerAgent"}

\* decisions the manager crew can return: well-formed ones, and for
\* orchestrator.py also the ones lacking a field
Decisions ==
    IF module = "orchestrator" THEN ManagerDecision \cup MalformedDecision
    ELSE ManagerDecision

\* the conversation history as a manager or worker step receives it
PassedHistory ==
    IF module = "main" THEN json_dumps(conversation_history) ELSE conversation_history

\* what the loop leaves alone: the arguments of the call, what orchestrate
\* derived from them before the loop, and everything outside orchestrate
LoopFrame ==
    /\ UNCHANGED <<module, caller_history, history_at_call, conversation_history,
                   trimCalls, matched_example, ENABLE_USER_INTERACTION, interactive,
                   otherCalls>>
    /\ UNCHANGED <<gateVars, regVars, matchVars, moreVars>>

\* end_and_save and `return filter_output(final_outputs)` after the loop
Completed(fo, reason) ==
    IF module = "main" /\ main_filter_raises(fo)
    THEN /\ error' = [kind |-> "AttributeError", name |-> "get", available |-> {}]
         /\ pc' = "error"
         /\ endedBy' = "error"
         /\ UNCHANGED returned
    ELSE /\ returned' = IF module = "main" THEN main_filter_output(fo) ELSE filter_output(fo)
         /\ pc' = "done"
         /\ endedBy' = reason
         /\ UNCHANGED error

\* the entry appended by handle_convergence after the summary
ConvergenceEntry == [agent |-> "System", output |-> [message |-> "Convergence detected"]]

\* handle_convergence: summarize the last worker result when it is truthy,
\* then the System entry; the loop breaks and orchestrate returns
HandleConvergence ==
    /\ pc = "loop"
    /\ ~stop
    /\ check_convergence(history, 2)
    /\ \E gen \in QAResponse :
          LET summarize == Truthy(last_agent_result(history))
              fo == IF summarize THEN Put(final_outputs, "GeneralQAAgent", gen)
                    ELSE final_outputs
              h1 == IF summarize
                    THEN Append(history, [agent |-> "GeneralQAAgent", output |-> gen])
                    ELSE history
          IN  /\ final_outputs' = fo
              /\ history' = Append(h1, ConvergenceEntry)
              /\ summarizerCalls' = summarizerCalls + (IF summarize THEN 1 ELSE 0)
              /\ Completed(fo, "convergence")
    /\ UNCHANGED <<latest_response, next_agent_name, stop, managerCalls, workerCalls,
                   passed_history, next_task_description>>
    /\ LoopFrame

\* stop = decision_json.get("stop", False) or decision_json.get("next_agent") == "END"
IsStop(decision_json) ==
    \/ IF "stop" \in DOMAIN decision_json THEN decision_json.stop ELSE FALSE
    \/ Get(decision_json, "next_agent") = "END"

\* decision_json["next_agent"] on a dict without that key
MissingNextAgent == [kind |-> "KeyError", name |-> "next_agent", available |-> {}]

\* the manager branch of the loop: run_manager_agent, then either
\* handle_manager_stop and return, or hand over to the named agent
ManagerStep ==
    /\ pc = "loop"
    /\ ~stop
    /\ ~check_convergence(history, 2)
    /\ next_agent_name = "ManagerAgent"
    /\ managerCalls < MaxDecisions
    /\ \E decision_json \in Decisions, gen \in QAResponse :
          LET h1 == Append(history, [agent |-> "ManagerAgent", output |-> decision_json])
              summarize == "GeneralQAAgent" \notin DOMAIN final_outputs
              fo == IF summarize THEN Put(final_outputs, "GeneralQAAgent", gen)
                    ELSE final_outputs
          IN  /\ managerCalls' = managerCalls + 1
              /\ passed_history' = passed_history \cup {PassedHistory}
              /\ stop' = IsStop(decision_json)
              /\ IF IsStop(decision_json)
                 THEN /\ final_outputs' = fo
                      /\ history' = IF summarize
                                    THEN Append(h1, [agent |-> "GeneralQAAgent", output |-> gen])
                                    ELSE h1
                      /\ summarizerCalls' = summarizerCalls + (IF summarize THEN 1 ELSE 0)
                      /\ Completed(fo, "stop")
                      /\ UNCHANGED <<next_agent_name, next_task_description>>
                 ELSE IF "next_agent" \notin DOMAIN decision_json
                 THEN /\ history' = h1
                      /\ error' = MissingNextAgent
                      /\ pc' = "error"
                      /\ endedBy' = "error"
                      /\ UNCHANGED <<final_outputs, summarizerCalls, returned,
                                     next_agent_name, next_task_description>>
                 ELSE /\ history' = h1
                      /\ next_agent_name' = decision_json.next_agent
                      /\ next_task_description' =
                            IF "next_task_description" \in DOMAIN decision_json
                            THEN decision_json.next_task_description
                            ELSE ""
                      /\ UNCHANGED <<final_outputs, summarizerCalls, returned, pc,
                                     endedBy, error>>
    /\ UNCHANGED <<latest_response, workerCalls>>
    /\ LoopFrame

\* the error without the listing of the registry
UnknownAgentError_no_listing(name) ==
    [kind |-> "ValueError", name |-> name, available |-> {}]

\* ValueError(f"Unknown agent requested by Manager: {next_agent_name}.
\*              Available agents: {list(registered_agents.keys())}")
UnknownAgentError(name) ==
    [kind |-> "ValueError", name |-> name, available |-> get_agent_descriptions]

\* the needs_input result without the outputs written so far
needs_input_no_outputs(question, context, partial_outputs) ==
    [status |-> "needs_input", question |-> question, context |-> context,
     partial_outputs |-> EmptyDict]

\* the result orchestrate of orchestrator_enhanced.py returns when it catches
\* UserInteractionNeeded(question, context)
needs_input(question, context, partial_outputs) ==
    [status |-> "needs_input", question |-> question, context |-> context,
     partial_outputs |-> partial_outputs]

\* the loop handing over to the same worker again
AfterWorker_same(name) == name

\* next_agent_name = "ManagerAgent" after a worker step
AfterWorker(name) == "ManagerAgent"

\* the worker branch of the loop: run_worker_agent
WorkerStep ==
    /\ pc = "loop"
    /\ ~stop
    /\ ~check_convergence(history, 2)
    /\ next_agent_name # "ManagerAgent"
    /\ IF (IF module = "main" THEN next_agent_name \notin MAIN_REGISTRY
                             ELSE get_agent_is_None(next_agent_name))
       THEN /\ error' = IF module = "main"
                        THEN [kind |-> "ValueError", name |-> next_agent_name,
                              available |-> {n \in MAIN_REGISTRY : n \notin SubstringsOfManager}]
                        ELSE UnknownAgentError(next_agent_name)
            /\ pc' = "error"
            /\ endedBy' = "error"
            /\ UNCHANGED <<history, final_outputs, latest_response, next_agent_name,
                           workerCalls, returned, passed_history>>
       ELSE /\ \E agent_response \in AgentOutputs(next_agent_name) :
                  LET fo == Put(final_outputs, next_agent_name, agent_response)
                      h1 == Append(history, [agent |-> next_agent_name,
                                             output |-> agent_response])
                      asks == module = "orchestrator_enhanced" /\ ENABLE_USER_INTERACTION
                  IN  /\ final_outputs' = fo
                      /\ history' = h1
                      /\ IF asks /\ agent_response = NoneValue
                         THEN \* detect_missing_information: None has no .get
                              /\ error' = [kind |-> "AttributeError", name |-> "get",
                                           available |-> {}]
                              /\ pc' = "error"
                              /\ endedBy' = "error"
                              /\ UNCHANGED <<latest_response, next_agent_name, returned>>
                         ELSE IF asks /\ detect_missing_information(agent_response) # PyNone
                         THEN \* raise UserInteractionNeeded, caught by orchestrate
                              /\ returned' = needs_input(
                                    detect_missing_information(agent_response),
                                    [agent |-> next_agent_name, response |-> agent_response,
                                     history |-> h1],
                                    fo)
                              /\ pc' = "done"
                              /\ endedBy' = "needs_input"
                              /\ UNCHANGED <<latest_response, next_agent_name, error>>
                         ELSE /\ latest_response' = agent_response
                              /\ next_agent_name' = AfterWorker(next_agent_name)
                              /\ UNCHANGED <<error, pc, endedBy, returned>>
            /\ workerCalls' = workerCalls + 1
            /\ passed_history' = passed_history \cup {PassedHistory}
    /\ UNCHANGED <<stop, managerCalls, summarizerCalls, next_task_description>>
    /\ LoopFrame

\* what an entry of orchestrate leaves alone
EntryFrame ==
    /\ UNCHANGED <<history, final_outputs, latest_response, next_agent_name, stop,
                   error, managerCalls, workerCalls, summarizerCalls>>
    /\ UNCHANGED <<passed_history, next_task_description, otherCalls>>
    /\ UNCHANGED <<gateVars, regVars, matchVars, moreVars>>

\* orchestrate of orchestrator.py up to its loop: the fast path, then
\* conversation_history = format_conversation_history(trim_history(...))
Orchestrate ==
    /\ pc = "start"
    /\ module' = "orchestrator"
    /\ \E hist \in CallerHistories, ratios \in ExampleRatios :
          LET m == match_example_request(ratios, DefaultThreshold)
          IN  /\ history_at_call' = hist
              /\ caller_history' = hist
              /\ matched_example' = m
              /\ IF m # 0
                 THEN /\ returned' = matched_output(m)
                      /\ pc' = "done"
                      /\ endedBy' = "example"
                      /\ UNCHANGED <<conversation_history, trimCalls>>
                 ELSE /\ conversation_history' =
                            format_conversation_history(trim_history(hist, MAX_MESSAGES))
                      /\ trimCalls' = trimCalls + 1
                      /\ pc' = "loop"
                      /\ UNCHANGED <<returned, endedBy>>
    /\ UNCHANGED <<ENABLE_USER_INTERACTION, interactive>>
    /\ EntryFrame

\* orchestrate of orchestrator_enhanced.py up to its loop: sets the module
\* global from the interactive argument; there is no fast path
OrchestrateEnhanced ==
    /\ pc = "start"
    /\ module' = "orchestrator_enhanced"
    /\ \E hist \in CallerHistories, flag \in BOOLEAN :
          /\ history_at_call' = hist
          /\ caller_history' = hist
          /\ interactive' = flag
          /\ ENABLE_USER_INTERACTION' = flag
          /\ conversation_history' =
                format_conversation_history(trim_history(hist, MAX_MESSAGES_enhanced))
    /\ trimCalls' = trimCalls + 1
    /\ pc' = "loop"
    /\ UNCHANGED <<returned, endedBy, matched_example>>
    /\ EntryFrame

\* orchestrate of main.py up to its loop: the oldest turns are popped from
\* the list the caller passed, which the local name keeps referring to
OrchestrateMain ==
    /\ pc = "start"
    /\ module' = "main"
    /\ \E hist \in MainHistories :
          /\ history_at_call' = hist
          /\ caller_history' = prune_history(hist)
          /\ conversation_history' = prune_history(hist)
    /\ pc' = "loop"
    /\ UNCHANGED <<returned, endedBy, matched_example, trimCalls, ENABLE_USER_INTERACTION,
                   interactive>>
    /\ EntryFrame

OrchNext == Orchestrate \/ HandleConvergence \/ ManagerStep \/ WorkerStep

EnhancedNext == OrchestrateEnhanced \/ HandleConvergence \/ ManagerStep \/ WorkerStep

MainNext == OrchestrateMain \/ HandleConvergence \/ ManagerStep \/ WorkerStep

(***************************************************************************)
(* The registry (agents/registry/agent.py, registration.py).               *)
(***************************************************************************)
\* agents handed to register(), known by their role
Agents == {[role |-> "PageNavigatorAgent"], [role |-> "ManagerAgent"]}

\* agent_name arguments: None, "" and a name of its own
AgentNames == {PyNone, "", "Manager"}

Descriptions == {"d1", "d2"}

OutputContracts == {"NavigationResponse", "QAResponse"}

\* the arguments of one register() call
RegisterArgs ==
    [op : {"register"}, agent : Agents, output : OutputContracts,
     agent_name : AgentNames, description : Descriptions]

\* no registry call yet
NoCall == [op |-> "none"]

\* name = agent_name or agent.role
registered_name(args) ==
    IF args.agent_name \in {PyNone, ""} THEN args.agent.role ELSE args.agent_name

AgentInfo(args) ==
    [agent |-> args.agent, description |-> args.description, output |-> args.output]

\* register() that keeps the entry a name already has
register_keep_first(reg, args) ==
    IF registered_name(args) \in DOMAIN reg THEN reg
    ELSE Put(reg, registered_name(args), AgentInfo(args))

\* AGENT_REGISTRY[name] = AgentInfo(agent=agent, description=description, output=output)
register(reg, args) == Put(reg, registered_name(args), AgentInfo(args))

\* get_agent_descriptions() on a registry:
\* {name: info.description for name, info in AGENT_REGISTRY.items() if name not in ("Manager")}
agent_descriptions(reg) ==
    [name \in {n \in DOMAIN reg : n \notin SubstringsOfManager} |-> reg[name].description]

\* the entry register_agents() writes under a name
RegisteredInfo(name) ==
    [agent |-> [role |-> name], description |-> "description of the agent",
     output |-> "output contract of the agent"]

\* a register() call
Register ==
    /\ regCalls < MaxRegistrations
    /\ \E args \in RegisterArgs :
          /\ registry' = register(registry, args)
          /\ lastCall' = args
    /\ regCalls' = regCalls + 1
    /\ UNCHANGED <<orchVars, gateVars, callVars, matchVars, moreVars>>

\* register_agents(): six register() calls, ManagerAgent last
RegisterAgents ==
    /\ regCalls < MaxRegistrations
    /\ registry' = [name \in (DOMAIN registry) \cup AGENT_REGISTRY |->
                       IF name \in AGENT_REGISTRY THEN RegisteredInfo(name)
                       ELSE registry[name]]
    /\ lastCall' = [op |-> "register_agents"]
    /\ regCalls' = regCalls + 1
    /\ UNCHANGED <<orchVars, gateVars, callVars, matchVars, moreVars>>

RegistryNext == Register \/ RegisterAgents

(***************************************************************************)
(* match_example_request on its own.                                       *)
(***************************************************************************)
MatchExampleRequest ==
    /\ \E ratios \in RatioLists, threshold \in RatioValues :
          /\ match_ratios' = ratios
          /\ match_threshold' = threshold
          /\ match_result' = match_example_request(ratios, threshold)
    /\ UNCHANGED <<orchVars, gateVars, callVars, regVars, moreVars>>

MatchNext == MatchExampleRequest

(***************************************************************************)
(* SmartDBUpdater (smart_db_updater.py).  The module-level globals         *)
(* LAST_UPDATE_TIME, UPDATE_COUNT, UPDATE_IN_PROGRESS and _update_lock     *)
(* are the gate's state; `variant` says which copy of the module runs.     *)
(***************************************************************************)
\* largest clock value explored (seconds)
MaxTime == 3

\* largest cooldown_seconds explored
MaxCooldown == 2

\* update_now calls explored in one behaviour
MaxCalls == 3

\* concurrent callers of update_now
Threads == {"t1", "t2"}

\* LAST_UPDATE_TIME = None
NoTime == -1

NoThread == "none"

Variants == {"fusion", "org"}

\* what the registered refresh callback does: returns a "success" status
\* record, returns an "error" status record, or raises
CallbackOutcomes == {"success", "error_status", "raise"}


\* a caller is between setting UPDATE_IN_PROGRESS and clearing it
InRefresh(t) == tpc[t] \in {"try", "commit", "except", "finally"}

\* a call of update_now is in flight (invoked and not yet returned)
Active(t) == tpc[t] # "idle"

\* should_update with the comparison turned around
should_update_inverted(last, clock, cooldown) ==
    IF last = NoTime THEN TRUE
    ELSE IF clock - last > cooldown THEN FALSE
    ELSE TRUE

\* should_update with the boundary on the other side
should_update_inclusive(last, clock, cooldown) ==
    IF last = NoTime THEN TRUE
    ELSE IF clock - last <= cooldown THEN FALSE
    ELSE TRUE

should_update(last, clock, cooldown) ==
    IF last = NoTime THEN TRUE
    ELSE IF clock - last < cooldown THEN FALSE
    ELSE TRUE

\* a lock that never excludes anybody
LockFree_always == TRUE

\* _update_lock can be acquired
LockFree == update_lock = NoThread

\* the in-progress test skipped for forced calls
SkipInProgress_unless_forced(in_progress, forced) == in_progress /\ ~forced

\* the test `if UPDATE_IN_PROGRESS:` at the top of update_now
SkipInProgress(in_progress, forced) == in_progress

PyBool(b) == IF b THEN "True" ELSE "False"

\* the smart_db_updater modules, each with its own globals
GateModules == {"fusion", "org"}

\* the data-backed query tools
Tools == {"expense", "org_chart", "absence"}

\* concurrent runs of the enhanced orchestrate
Runs == {"r1", "r2"}

\* current_iteration_data = {}
NoData == [iteration_number |-> 0, by |-> "none"]

\* no key
NoKey == -1

\* length of the api_keys list
MaxKeys == 3

\* the gate after import of the module and construction of the updater;
\* no orchestrate call is looked at
GateInit ==
    /\ variant \in Variants
    /\ cooldown_seconds \in 0..MaxCooldown
    /\ update_function \in BOOLEAN
    /\ now = 0
    /\ LAST_UPDATE_TIME = NoTime
    /\ UPDATE_COUNT = 0
    /\ UPDATE_IN_PROGRESS = FALSE
    /\ update_lock = NoThread
    /\ tpc = [t \in Threads |-> "idle"]
    /\ force = [t \in Threads |-> FALSE]
    /\ result = [t \in Threads |-> "none"]
    /\ outcome = [t \in Threads |-> "none"]
    /\ busyAtCheck = [t \in Threads |-> FALSE]
    /\ overlapped = [t \in Threads |-> {}]
    /\ countAtMark = [t \in Threads |-> 0]
    /\ callsMade = 0
    /\ callbackRuns = 0
    /\ lastUnforcedOk = NoTime
    /\ can_update_now = "unset"
    /\ pc = "start"
    /\ history = <<>>
    /\ final_outputs = EmptyDict
    /\ latest_response = EmptyString
    /\ next_agent_name = "ManagerAgent"
    /\ stop = FALSE
    /\ returned = NotReturned
    /\ error = NoError
    /\ managerCalls = 0
    /\ workerCalls = 0
    /\ summarizerCalls = 0
    /\ endedBy = "none"
    /\ module = "none"
    /\ caller_history = NoHistory
    /\ history_at_call = NoHistory
    /\ conversation_history = NoHistory
    /\ passed_history = {}
    /\ trimCalls = 0
    /\ next_task_description = ""
    /\ matched_example = 0
    /\ ENABLE_USER_INTERACTION = TRUE
    /\ registry = EmptyDict
    /\ lastCall = NoCall
    /\ regCalls = 0
    /\ match_ratios = <<>>
    /\ match_threshold = DefaultThreshold
    /\ match_result = 0
    /\ interactive = TRUE
    /\ otherCalls = 0
    /\ conv_history = <<>>
    /\ conv_N = 2
    /\ conv_result = "unset"
    /\ fusion_update_function = "unset"
    /\ tool_time = 0
    /\ gate_last = [m \in GateModules |-> NoTime]
    /\ gate_count = [m \in GateModules |-> 0]
    /\ refreshes = [t \in Tools |-> 0]
    /\ refreshed_at = [t \in Tools |-> NoTime]
    /\ queries = 0
    /\ last_query = [tool |-> "none"]
    /\ agent_tracks = EmptyDict
    /\ current_agent = PyNone
    /\ current_iteration = 0
    /\ current_iteration_data = NoData
    /\ tracker_lock = NoThread
    /\ run_pc = [r \in Runs |-> "idle"]
    /\ run_agent = [r \in Runs |-> PyNone]
    /\ track_internal = [r \in Runs |-> <<>>]
    /\ trackerCalls = 0
    /\ api_keys = 0
    /\ current_key_index = 0
    /\ failed_keys = {}
    /\ key_cooldown = EmptyDict
    /\ cooldown_duration = 1
    /\ key_time = 0
    /\ got_key = NoKey
    /\ usable_at_get = {}
    /\ cooling_at_get = {}
    /\ marked_at = [k \in 0..MaxKeys |-> NoTime]
    /\ keyCalls = 0
    /\ llm_pc = "idle"
    /\ attempt = 0
    /\ invocations = 0
    /\ current_llm_key = NoKey
    /\ llm_error = "none"
    /\ last_outcome = "none"
    /\ marked = <<>>
    /\ kickoffs = 0

\* the configuration of a gate never changes after construction
GateConfig == UNCHANGED <<variant, cooldown_seconds, update_function>>

\* time passes
Tick ==
    /\ now < MaxTime
    /\ now' = now + 1
    /\ can_update_now' = "unset"
    /\ GateConfig
    /\ UNCHANGED <<LAST_UPDATE_TIME, UPDATE_COUNT, UPDATE_IN_PROGRESS, update_lock, tpc,
                   force, result, outcome, busyAtCheck, overlapped, countAtMark,
                   callsMade, callbackRuns, lastUnforcedOk>>
    /\ UNCHANGED <<orchVars, callVars, regVars, matchVars, moreVars>>

\* should_update() called on its own (get_status, 'can_update_now')
ShouldUpdate ==
    /\ can_update_now' = PyBool(should_update(LAST_UPDATE_TIME, now, cooldown_seconds))
    /\ can_update_now' # can_update_now
    /\ GateConfig
    /\ UNCHANGED <<now, LAST_UPDATE_TIME, UPDATE_COUNT, UPDATE_IN_PROGRESS, update_lock,
                   tpc, force, result, outcome, busyAtCheck, overlapped, countAtMark,
                   callsMade, callbackRuns, lastUnforcedOk>>
    /\ UNCHANGED <<orchVars, callVars, regVars, matchVars, moreVars>>

\* what every step of update_now leaves alone
CallerFrame ==
    /\ can_update_now' = "unset"
    /\ GateConfig
    /\ UNCHANGED now
    /\ UNCHANGED <<orchVars, callVars, regVars, matchVars, moreVars>>

\* a thread calls update_now(force=f)
Call(t) ==
    /\ tpc[t] = "idle"
    /\ callsMade < MaxCalls
    /\ \E f \in BOOLEAN : force' = [force EXCEPT ![t] = f]
    /\ tpc' = [tpc EXCEPT ![t] = "acquire"]
    /\ result' = [result EXCEPT ![t] = "none"]
    /\ outcome' = [outcome EXCEPT ![t] = "none"]
    /\ busyAtCheck' = [busyAtCheck EXCEPT ![t] = FALSE]
    /\ overlapped' = [u \in Threads |->
                        IF u = t THEN {v \in Threads \ {t} : Active(v)}
                        ELSE IF Active(u) THEN overlapped[u] \cup {t}
                        ELSE overlapped[u]]
    /\ callsMade' = callsMade + 1
    /\ CallerFrame
    /\ UNCHANGED <<LAST_UPDATE_TIME, UPDATE_COUNT, UPDATE_IN_PROGRESS, update_lock,
                   countAtMark, callbackRuns, lastUnforcedOk>>

\* with _update_lock:
AcquireLock(t) ==
    /\ tpc[t] = "acquire"
    /\ LockFree
    /\ update_lock' = t
    /\ tpc' = [tpc EXCEPT ![t] = "check_progress"]
    /\ CallerFrame
    /\ UNCHANGED <<LAST_UPDATE_TIME, UPDATE_COUNT, UPDATE_IN_PROGRESS, force, result,
                   outcome, busyAtCheck, overlapped, countAtMark, callsMade,
                   callbackRuns, lastUnforcedOk>>

\* if UPDATE_IN_PROGRESS: return False
CheckInProgress(t) ==
    /\ tpc[t] = "check_progress"
    /\ busyAtCheck' = [busyAtCheck EXCEPT ![t] = \E u \in Threads \ {t} : InRefresh(u)]
    /\ IF SkipInProgress(UPDATE_IN_PROGRESS, force[t])
       THEN /\ result' = [result EXCEPT ![t] = "False"]
            /\ tpc' = [tpc EXCEPT ![t] = "returned"]
            /\ update_lock' = NoThread
       ELSE /\ tpc' = [tpc EXCEPT ![t] = "check_cooldown"]
            /\ UNCHANGED <<result, update_lock>>
    /\ CallerFrame
    /\ UNCHANGED <<LAST_UPDATE_TIME, UPDATE_COUNT, UPDATE_IN_PROGRESS, force, outcome,
                   overlapped, countAtMark, callsMade, callbackRuns, lastUnforcedOk>>

\* if not force and not self.should_update(): return False
CheckCooldown(t) ==
    /\ tpc[t] = "check_cooldown"
    /\ IF ~force[t] /\ ~should_update(LAST_UPDATE_TIME, now, cooldown_seconds)
       THEN /\ result' = [result EXCEPT ![t] = "False"]
            /\ tpc' = [tpc EXCEPT ![t] = "returned"]
            /\ update_lock' = NoThread
       ELSE /\ tpc' = [tpc EXCEPT ![t] = "mark"]
            /\ UNCHANGED <<result, update_lock>>
    /\ CallerFrame
    /\ UNCHANGED <<LAST_UPDATE_TIME, UPDATE_COUNT, UPDATE_IN_PROGRESS, force, outcome,
                   busyAtCheck, overlapped, countAtMark, callsMade, callbackRuns,
                   lastUnforcedOk>>

\* UPDATE_IN_PROGRESS = True, end of the with block
MarkInProgress(t) ==
    /\ tpc[t] = "mark"
    /\ UPDATE_IN_PROGRESS' = TRUE
    /\ update_lock' = IF update_lock = t THEN NoThread ELSE update_lock
    /\ countAtMark' = [countAtMark EXCEPT ![t] = UPDATE_COUNT]
    /\ tpc' = [tpc EXCEPT ![t] = "try"]
    /\ CallerFrame
    /\ UNCHANGED <<LAST_UPDATE_TIME, UPDATE_COUNT, force, result, outcome, busyAtCheck,
                   overlapped, callsMade, callbackRuns, lastUnforcedOk>>

\* the try block up to the end of the callback
CallUpdateFunction(t) ==
    /\ tpc[t] = "try"
    /\ IF ~update_function
       THEN \* fusion: `return False` inside try; org: raise Exception(...)
            /\ IF variant = "fusion"
               THEN /\ result' = [result EXCEPT ![t] = "False"]
                    /\ tpc' = [tpc EXCEPT ![t] = "finally"]
               ELSE /\ tpc' = [tpc EXCEPT ![t] = "except"]
                    /\ UNCHANGED result
            /\ UNCHANGED <<outcome, callbackRuns>>
       ELSE /\ \E o \in CallbackOutcomes :
                  /\ outcome' = [outcome EXCEPT ![t] = o]
                  /\ tpc' = [tpc EXCEPT ![t] = IF o = "raise" THEN "except" ELSE "commit"]
            /\ callbackRuns' = callbackRuns + 1
            /\ UNCHANGED result
    /\ CallerFrame
    /\ UNCHANGED <<LAST_UPDATE_TIME, UPDATE_COUNT, UPDATE_IN_PROGRESS, update_lock, force,
                   busyAtCheck, overlapped, countAtMark, callsMade, lastUnforcedOk>>

\* with _update_lock: LAST_UPDATE_TIME = datetime.now(); UPDATE_COUNT += 1
\* (org also clears UPDATE_IN_PROGRESS here); return True
Commit(t) ==
    /\ tpc[t] = "commit"
    /\ LockFree
    /\ LAST_UPDATE_TIME' = now
    /\ UPDATE_COUNT' = UPDATE_COUNT + 1
    /\ lastUnforcedOk' = IF force[t] THEN lastUnforcedOk ELSE now
    /\ result' = [result EXCEPT ![t] = "True"]
    /\ IF variant = "org"
       THEN /\ UPDATE_IN_PROGRESS' = FALSE
            /\ tpc' = [tpc EXCEPT ![t] = "returned"]
       ELSE /\ tpc' = [tpc EXCEPT ![t] = "finally"]
            /\ UNCHANGED UPDATE_IN_PROGRESS
    /\ CallerFrame
    /\ UNCHANGED <<update_lock, force, outcome, busyAtCheck, overlapped, countAtMark,
                   callsMade, callbackRuns>>

\* except Exception as e: fusion logs and returns False;
\* org clears UPDATE_IN_PROGRESS under the lock and re-raises
Except(t) ==
    /\ tpc[t] = "except"
    /\ IF variant = "fusion"
       THEN /\ result' = [result EXCEPT ![t] = "False"]
            /\ tpc' = [tpc EXCEPT ![t] = "finally"]
            /\ UNCHANGED UPDATE_IN_PROGRESS
       ELSE /\ LockFree
            /\ UPDATE_IN_PROGRESS' = FALSE
            /\ result' = [result EXCEPT ![t] = "raised"]
            /\ tpc' = [tpc EXCEPT ![t] = "returned"]
    /\ CallerFrame
    /\ UNCHANGED <<LAST_UPDATE_TIME, UPDATE_COUNT, update_lock, force, outcome,
                   busyAtCheck, overlapped, countAtMark, callsMade, callbackRuns,
                   lastUnforcedOk>>

\* fusion: finally: with _update_lock: UPDATE_IN_PROGRESS = False
Finally(t) ==
    /\ tpc[t] = "finally"
    /\ LockFree
    /\ UPDATE_IN_PROGRESS' = FALSE
    /\ tpc' = [tpc EXCEPT ![t] = "returned"]
    /\ CallerFrame
    /\ UNCHANGED <<LAST_UPDATE_TIME, UPDATE_COUNT, update_lock, force, result, outcome,
                   busyAtCheck, overlapped, countAtMark, callsMade, callbackRuns,
                   lastUnforcedOk>>

\* the caller has its result (or exception); the thread is free to call again
Return(t) ==
    /\ tpc[t] = "returned"
    /\ tpc' = [tpc EXCEPT ![t] = "idle"]
    /\ force' = [force EXCEPT ![t] = FALSE]
    /\ result' = [result EXCEPT ![t] = "none"]
    /\ outcome' = [outcome EXCEPT ![t] = "none"]
    /\ busyAtCheck' = [busyAtCheck EXCEPT ![t] = FALSE]
    /\ overlapped' = [u \in Threads |-> IF u = t THEN {} ELSE overlapped[u] \ {t}]
    /\ countAtMark' = [countAtMark EXCEPT ![t] = 0]
    /\ CallerFrame
    /\ UNCHANGED <<LAST_UPDATE_TIME, UPDATE_COUNT, UPDATE_IN_PROGRESS, update_lock,
                   callsMade, callbackRuns, lastUnforcedOk>>

GateNext ==
    \/ Tick
    \/ ShouldUpdate
    \/ \E t \in Threads : Call(t)
    \/ \E t \in Threads : AcquireLock(t)
    \/ \E t \in Threads : CheckInProgress(t)
    \/ \E t \in Threads : CheckCooldown(t)
    \/ \E t \in Threads : MarkInProgress(t)
    \/ \E t \in Threads : CallUpdateFunction(t)
    \/ \E t \in Threads : Commit(t)
    \/ \E t \in Threads : Except(t)
    \/ \E t \in Threads : Finally(t)
    \/ \E t \in Threads : Return(t)

\* the process after import of its modules: orchestrate not called yet, the
\* locals of orchestrate at the values it gives them before the loop, the
\* registry empty, the gate left alone
OrchInit ==
    /\ pc = "start"
    /\ history = <<>>
    /\ final_outputs = EmptyDict
    /\ latest_response = EmptyString
    /\ next_agent_name = "ManagerAgent"
    /\ stop = FALSE
    /\ returned = NotReturned
    /\ error = NoError
    /\ managerCalls = 0
    /\ workerCalls = 0
    /\ summarizerCalls = 0
    /\ endedBy = "none"
    /\ variant = "fusion"
    /\ cooldown_seconds = 0
    /\ update_function = TRUE
    /\ now = 0
    /\ LAST_UPDATE_TIME = NoTime
    /\ UPDATE_COUNT = 0
    /\ UPDATE_IN_PROGRESS = FALSE
    /\ update_lock = NoThread
    /\ tpc = [t \in Threads |-> "idle"]
    /\ force = [t \in Threads |-> FALSE]
    /\ result = [t \in Threads |-> "none"]
    /\ outcome = [t \in Threads |-> "none"]
    /\ busyAtCheck = [t \in Threads |-> FALSE]
    /\ overlapped = [t \in Threads |-> {}]
    /\ countAtMark = [t \in Threads |-> 0]
    /\ callsMade = 0
    /\ callbackRuns = 0
    /\ lastUnforcedOk = NoTime
    /\ can_update_now = "unset"
    /\ module = "none"
    /\ caller_history = NoHistory
    /\ history_at_call = NoHistory
    /\ conversation_history = NoHistory
    /\ passed_history = {}
    /\ trimCalls = 0
    /\ next_task_description = ""
    /\ matched_example = 0
    /\ ENABLE_USER_INTERACTION = TRUE
    /\ registry = EmptyDict
    /\ lastCall = NoCall
    /\ regCalls = 0
    /\ match_ratios = <<>>
    /\ match_threshold = DefaultThreshold
    /\ match_result = 0
    /\ interactive = TRUE
    /\ otherCalls = 0
    /\ conv_history = <<>>
    /\ conv_N = 2
    /\ conv_result = "unset"
    /\ fusion_update_function = "unset"
    /\ tool_time = 0
    /\ gate_last = [m \in GateModules |-> NoTime]
    /\ gate_count = [m \in GateModules |-> 0]
    /\ refreshes = [t \in Tools |-> 0]
    /\ refreshed_at = [t \in Tools |-> NoTime]
    /\ queries = 0
    /\ last_query = [tool |-> "none"]
    /\ agent_tracks = EmptyDict
    /\ current_agent = PyNone
    /\ current_iteration = 0
    /\ current_iteration_data = NoData
    /\ tracker_lock = NoThread
    /\ run_pc = [r \in Runs |-> "idle"]
    /\ run_agent = [r \in Runs |-> PyNone]
    /\ track_internal = [r \in Runs |-> <<>>]
    /\ trackerCalls = 0
    /\ api_keys = 0
    /\ current_key_index = 0
    /\ failed_keys = {}
    /\ key_cooldown = EmptyDict
    /\ cooldown_duration = 1
    /\ key_time = 0
    /\ got_key = NoKey
    /\ usable_at_get = {}
    /\ cooling_at_get = {}
    /\ marked_at = [k \in 0..MaxKeys |-> NoTime]
    /\ keyCalls = 0
    /\ llm_pc = "idle"
    /\ attempt = 0
    /\ invocations = 0
    /\ current_llm_key = NoKey
    /\ llm_error = "none"
    /\ last_outcome = "none"
    /\ marked = <<>>
    /\ kickoffs = 0

(***************************************************************************)
(* check_convergence called on its own (orchestrator.py:14-22,             *)
(* orchestrator_enhanced.py:98-108), on histories of any shape.            *)
(***************************************************************************)
\* longest history passed to check_convergence
MaxEntries == 4

\* largest N passed to check_convergence
MaxN == 2

\* histories of manager, summarizer and worker entries
ConvHistories ==
    UNION {[1..n -> [agent : {"ManagerAgent", "GeneralQAAgent", "PageNavigatorAgent"},
                     output : {"x", "y"}]] : n \in 0..MaxEntries}

\* result = check_convergence(history, N)
CheckConvergence ==
    /\ conv_result = "unset"
    /\ \E h \in ConvHistories, N \in 1..MaxN :
          /\ conv_history' = h
          /\ conv_N' = N
          /\ conv_result' = PyBool(check_convergence(h, N))
    /\ UNCHANGED <<baseVars, toolVars, trackerVars, keyVars, llmVars>>

(***************************************************************************)
(* The data-backed query tools: execute_sql_query (fusion_Analytics),      *)
(* execute_org_chart_query (org_Chart) and execute_absence_query           *)
(* (absence_analytics), each consulting a SmartDBUpdater before it queries.*)
(* A query runs to completion before the next one starts.                  *)
(***************************************************************************)
\* latest clock value, in seconds
MaxToolTime == 11

\* tool queries made
MaxQueries == 3

\* COOLDOWN_SECONDS of the three tools modules; the fusion singleton is
\* created by fusion_Analytics/tools.py, the first caller of get_updater
COOLDOWN_SECONDS == 10

\* the smart_db_updater module whose globals the tool's updater reads:
\* absence_analytics builds its SmartDBUpdater from the fusion module
GateOf(tool) == IF tool = "org_chart" THEN "org" ELSE "fusion"

\* get_time_until_next_update
get_time_until_next_update(m) ==
    IF gate_last[m] = NoTime THEN 0
    ELSE LET time_since == tool_time - gate_last[m]
         IN  IF COOLDOWN_SECONDS - time_since > 0
             THEN COOLDOWN_SECONDS - time_since ELSE 0

\* get_status()["can_update_now"]
status_can_update_now(m) == get_time_until_next_update(m) = 0

\* what a query leaves behind: the refreshes it ran and whether one succeeded
QueryRecord(tool, ran, ok) ==
    /\ queries' = queries + 1
    /\ last_query' = [tool |-> tool, refreshes |-> ran, refreshed |-> ok,
                      \* its latest successful refresh is less than the cooldown ago
                      in_window |-> /\ refreshed_at[tool] # NoTime
                                    /\ tool_time - refreshed_at[tool] < COOLDOWN_SECONDS]
    /\ refreshes' = [refreshes EXCEPT ![tool] = @ + ran]
    /\ refreshed_at' = [refreshed_at EXCEPT ![tool] = IF ok THEN tool_time ELSE @]

\* the application is imported: orchestrator_enhanced registers
\* refresh_expense_database(db_path) on the fusion gate after
\* fusion_Analytics/tools.py registered refresh_fusion_analytics_data();
\* orchestrator.py and main.py leave the latter in place
StartApplication ==
    /\ fusion_update_function = "unset"
    /\ \E f \in {"refresh_fusion_analytics_data", "refresh_expense_database"} :
          fusion_update_function' = f
    /\ UNCHANGED <<tool_time, gate_last, gate_count, refreshes, refreshed_at, queries,
                   last_query>>
    /\ UNCHANGED <<baseVars, convVars, trackerVars, keyVars, llmVars>>

ToolTick ==
    /\ fusion_update_function # "unset"
    /\ tool_time < MaxToolTime
    /\ tool_time' = tool_time + 1
    /\ UNCHANGED <<fusion_update_function, gate_last, gate_count, refreshes, refreshed_at,
                   queries, last_query>>
    /\ UNCHANGED <<baseVars, convVars, trackerVars, keyVars, llmVars>>

\* execute_sql_query: trigger_update() runs the registered update function
\* with db_path (a TypeError, swallowed by update_now, for the function that
\* takes no argument) and records the update when it succeeded; then
\* refresh_fusion_analytics_data() is called directly
ExpenseQuery ==
    /\ fusion_update_function # "unset"
    /\ queries < MaxQueries
    /\ IF status_can_update_now("fusion")
       THEN \E update_ok \in BOOLEAN, refresh_ok \in BOOLEAN :
               LET updated == /\ fusion_update_function = "refresh_expense_database"
                              /\ update_ok
               IN  /\ gate_last' = [gate_last EXCEPT
                                      !["fusion"] = IF updated THEN tool_time ELSE @]
                   /\ gate_count' = [gate_count EXCEPT
                                      !["fusion"] = IF updated THEN @ + 1 ELSE @]
                   /\ QueryRecord("expense", 1, refresh_ok)
       ELSE /\ QueryRecord("expense", 0, FALSE)
            /\ UNCHANGED <<gate_last, gate_count>>
    /\ UNCHANGED <<fusion_update_function, tool_time>>
    /\ UNCHANGED <<baseVars, convVars, trackerVars, keyVars, llmVars>>

\* execute_org_chart_query: refresh_org_chart_data(date_str) is called
\* directly and update_now is never called
OrgQuery ==
    /\ fusion_update_function # "unset"
    /\ queries < MaxQueries
    /\ IF status_can_update_now("org")
       THEN \E refresh_ok \in BOOLEAN : QueryRecord("org_chart", 1, refresh_ok)
       ELSE QueryRecord("org_chart", 0, FALSE)
    /\ UNCHANGED <<fusion_update_function, tool_time, gate_last, gate_count>>
    /\ UNCHANGED <<baseVars, convVars, trackerVars, keyVars, llmVars>>

\* execute_absence_query: absence_updater.get_status() reads the globals of
\* the fusion module; refresh_absence_analytics_data(date) is called directly
AbsenceQuery ==
    /\ fusion_update_function # "unset"
    /\ queries < MaxQueries
    /\ IF status_can_update_now(GateOf("absence"))
       THEN \E refresh_ok \in BOOLEAN : QueryRecord("absence", 1, refresh_ok)
       ELSE QueryRecord("absence", 0, FALSE)
    /\ UNCHANGED <<fusion_update_function, tool_time, gate_last, gate_count>>
    /\ UNCHANGED <<baseVars, convVars, trackerVars, keyVars, llmVars>>

ToolNext ==
    \/ StartApplication
    \/ ToolTick
    \/ ExpenseQuery
    \/ OrgQuery
    \/ AbsenceQuery

(***************************************************************************)
(* IterationTracker (iteration_tracker.py).  get_tracker() returns the one *)
(* module-level instance, so every run of the enhanced orchestrate calls   *)
(* the same tracker.  Each method body runs under self.lock; an iteration  *)
(* carries the run that recorded it in the field "by", which the program   *)
(* does not store.                                                         *)
(***************************************************************************)
\* tracker calls made
MaxTrackerCalls == 5

\* len(self.agent_tracks[self.current_agent]) < 5
MAX_TRACKED_ITERATIONS == 5

TrackerFrame ==
    /\ trackerCalls' = trackerCalls + 1
    /\ UNCHANGED <<baseVars, convVars, toolVars, keyVars, llmVars>>

\* tracker.start_agent_execution(agent_name), before the crew's kickoff
StartAgentExecution(r) ==
    /\ run_pc[r] \in {"idle", "ended"}
    /\ tracker_lock = NoThread
    /\ trackerCalls < MaxTrackerCalls
    /\ \E agent_name \in {"ManagerAgent", "PageNavigatorAgent"} :
          /\ current_agent' = agent_name
          /\ agent_tracks' = Put(agent_tracks, agent_name, <<>>)
          /\ run_agent' = [run_agent EXCEPT ![r] = agent_name]
    /\ current_iteration' = 0
    /\ run_pc' = [run_pc EXCEPT ![r] = "executing"]
    /\ UNCHANGED <<current_iteration_data, tracker_lock, track_internal>>
    /\ TrackerFrame

\* tracker.start_iteration(), during the run's kickoff
StartIteration(r) ==
    /\ run_pc[r] = "executing"
    /\ tracker_lock = NoThread
    /\ trackerCalls < MaxTrackerCalls
    /\ IF current_agent = PyNone
       THEN UNCHANGED <<current_iteration, current_iteration_data>>
       ELSE /\ current_iteration' = current_iteration + 1
            /\ current_iteration_data' =
                  [iteration_number |-> current_iteration + 1, by |-> r]
    /\ UNCHANGED <<agent_tracks, current_agent, tracker_lock, run_pc, run_agent,
                   track_internal>>
    /\ TrackerFrame

\* the body of end_iteration, once self.lock is held
end_iteration(tracks) ==
    IF current_agent = PyNone \/ current_iteration_data = NoData
    THEN tracks
    ELSE IF Len(tracks[current_agent]) < MAX_TRACKED_ITERATIONS
    THEN [tracks EXCEPT ![current_agent] = Append(@, current_iteration_data)]
    ELSE tracks

\* tracker.end_iteration(), during the run's kickoff
EndIteration(r) ==
    /\ run_pc[r] = "executing"
    /\ tracker_lock = NoThread
    /\ trackerCalls < MaxTrackerCalls
    /\ agent_tracks' = end_iteration(agent_tracks)
    /\ current_iteration_data' = IF current_agent = PyNone THEN current_iteration_data
                                 ELSE NoData
    /\ UNCHANGED <<current_agent, current_iteration, tracker_lock, run_pc, run_agent,
                   track_internal>>
    /\ TrackerFrame

\* track_internal = tracker.end_agent_execution(), after the run's kickoff
EndAgentExecution(r) ==
    /\ run_pc[r] = "executing"
    /\ tracker_lock = NoThread
    /\ trackerCalls < MaxTrackerCalls
    /\ IF current_agent = PyNone
       THEN /\ track_internal' = [track_internal EXCEPT ![r] = <<>>]
            /\ run_pc' = [run_pc EXCEPT ![r] = "ended"]
            /\ UNCHANGED <<agent_tracks, current_agent, current_iteration,
                           current_iteration_data, tracker_lock>>
       ELSE IF current_iteration_data # NoData
       THEN \* self.end_iteration() asks "with self.lock" for the non-reentrant
            \* threading.Lock this thread holds: it blocks for good
            /\ tracker_lock' = r
            /\ run_pc' = [run_pc EXCEPT ![r] = "deadlocked"]
            /\ UNCHANGED <<agent_tracks, current_agent, current_iteration,
                           current_iteration_data, track_internal>>
       ELSE /\ track_internal' = [track_internal EXCEPT
                                    ![r] = Get(end_iteration(agent_tracks), current_agent)]
            /\ agent_tracks' = end_iteration(agent_tracks)
            /\ current_iteration_data' = NoData
            /\ current_agent' = PyNone
            /\ current_iteration' = 0
            /\ run_pc' = [run_pc EXCEPT ![r] = "ended"]
            /\ UNCHANGED tracker_lock
    /\ UNCHANGED run_agent
    /\ TrackerFrame

TrackerNext ==
    \E r \in Runs :
        \/ StartAgentExecution(r)
        \/ StartIteration(r)
        \/ EndIteration(r)
        \/ EndAgentExecution(r)

(***************************************************************************)
(* orchestrate of orchestrator_enhanced.py while other threads enter the   *)
(* same function: each entry assigns the module global                     *)
(* ENABLE_USER_INTERACTION, which run_worker_agent of every call reads.    *)
(***************************************************************************)
\* other orchestrate calls that begin while this one runs
MaxOtherCalls == 2

\* another thread executes lines 399-400 of its own orchestrate call
OtherOrchestrateEnhanced ==
    /\ module = "orchestrator_enhanced"
    /\ pc = "loop"
    /\ otherCalls < MaxOtherCalls
    /\ \E flag \in BOOLEAN : ENABLE_USER_INTERACTION' = flag
    /\ otherCalls' = otherCalls + 1
    /\ UNCHANGED <<module, caller_history, history_at_call, conversation_history,
                   passed_history, trimCalls, next_task_description, matched_example,
                   interactive>>
    /\ UNCHANGED <<orchVars, gateVars, regVars, matchVars, moreVars>>

ConcurrentNext == EnhancedNext \/ OtherOrchestrateEnhanced

(***************************************************************************)
(* APIKeyManager (agents/llm_config/agent.py:28-78).  The keys of the list *)
(* are distinct and named by their position 0..len-1.                      *)
(***************************************************************************)
\* latest value of time.time(), in seconds
MaxKeyTime == 3

\* largest cooldown_duration
MaxKeyCooldown == 2

\* manager calls made
MaxKeyCalls == 4

Keys == 0..(api_keys - 1)

\* the cooldown passing at once
cooldown_over_at_once(current_time, failed_time, duration) == TRUE

\* current_time - self.key_cooldown.get(key, 0) > self.cooldown_duration
cooldown_over(current_time, failed_time, duration) ==
    current_time - failed_time > duration

\* _cleanup_cooldowns: the failed keys it leaves
cleanup_cooldowns ==
    {key \in failed_keys :
        ~cooldown_over(key_time,
                       IF key \in DOMAIN key_cooldown THEN key_cooldown[key] ELSE 0,
                       cooldown_duration)}

\* the loop of get_current_key: the index it stops at
RECURSIVE find_working_key(_, _, _)
find_working_key(index, failed, steps) ==
    IF steps = 0 THEN index
    ELSE IF index \notin failed THEN index
    ELSE find_working_key((index + 1) % api_keys, failed, steps - 1)

\* rotate_key
rotate_key(index) == (index + 1) % api_keys

\* keys whose latest mark_key_as_failed is less than the cooldown ago
CoolingKeys ==
    {key \in Keys : /\ marked_at[key] # NoTime
                    /\ key_time - marked_at[key] < cooldown_duration}

KeyFrame == UNCHANGED <<baseVars, convVars, toolVars, trackerVars, llmVars>>

\* APIKeyManager(api_keys, cooldown_duration)
NewAPIKeyManager ==
    /\ api_keys = 0
    /\ \E n \in 1..MaxKeys, duration \in 1..MaxKeyCooldown :
          /\ api_keys' = n
          /\ cooldown_duration' = duration
    /\ current_key_index' = 0
    /\ failed_keys' = {}
    /\ key_cooldown' = EmptyDict
    /\ UNCHANGED <<key_time, got_key, usable_at_get, cooling_at_get, marked_at, keyCalls>>
    /\ KeyFrame

\* the state get_current_key leaves and the key it returns
get_current_key ==
    /\ failed_keys' = cleanup_cooldowns
    /\ key_cooldown' = [key \in (DOMAIN key_cooldown) \cap cleanup_cooldowns |->
                           key_cooldown[key]]
    /\ current_key_index' = find_working_key(current_key_index, cleanup_cooldowns, api_keys)
    /\ got_key' = find_working_key(current_key_index, cleanup_cooldowns, api_keys)
    /\ usable_at_get' = Keys \ cleanup_cooldowns
    /\ cooling_at_get' = CoolingKeys

GetCurrentKey ==
    /\ api_keys > 0
    /\ keyCalls < MaxKeyCalls
    /\ get_current_key
    /\ keyCalls' = keyCalls + 1
    /\ UNCHANGED <<api_keys, cooldown_duration, key_time, marked_at>>
    /\ KeyFrame

\* mark_key_as_failed(key), which ends with rotate_key()
MarkKeyAsFailed ==
    /\ api_keys > 0
    /\ keyCalls < MaxKeyCalls
    /\ \E key \in Keys :
          /\ failed_keys' = failed_keys \cup {key}
          /\ key_cooldown' = Put(key_cooldown, key, key_time)
          /\ marked_at' = [marked_at EXCEPT ![key] = key_time]
    /\ current_key_index' = rotate_key(current_key_index)
    /\ keyCalls' = keyCalls + 1
    /\ UNCHANGED <<api_keys, cooldown_duration, key_time, got_key, usable_at_get,
                   cooling_at_get>>
    /\ KeyFrame

RotateKey ==
    /\ api_keys > 0
    /\ keyCalls < MaxKeyCalls
    /\ current_key_index' = rotate_key(current_key_index)
    /\ keyCalls' = keyCalls + 1
    /\ UNCHANGED <<api_keys, failed_keys, key_cooldown, cooldown_duration, key_time,
                   got_key, usable_at_get, cooling_at_get, marked_at>>
    /\ KeyFrame

KeyTick ==
    /\ api_keys > 0
    /\ key_time < MaxKeyTime
    /\ key_time' = key_time + 1
    /\ UNCHANGED <<api_keys, current_key_index, failed_keys, key_cooldown,
                   cooldown_duration, got_key, usable_at_get, cooling_at_get, marked_at,
                   keyCalls>>
    /\ KeyFrame

KeyNext ==
    \/ NewAPIKeyManager
    \/ GetCurrentKey
    \/ MarkKeyAsFailed
    \/ RotateKey
    \/ KeyTick

(***************************************************************************)
(* RobustLLM (agents/llm_config/agent.py:80-144), the llm of every agent.  *)
(* A manager or worker step calls crew.kickoff() once; the kickoff calls a *)
(* method of the llm, which __getattr__ wraps in the retry loop.           *)
(***************************************************************************)
\* steps taken
MaxKickoffs == 2

\* every error taken for a rate-limit error
is_rate_limit_error_any(llm_outcome) == llm_outcome # "ok"

\* _is_rate_limit_error
is_rate_limit_error(llm_outcome) == llm_outcome = "rate_limit"

\* what the statements after the loop raise: the name e was deleted when the
\* last except block ended, so the f-string raises before Exception is built
after_loop_error == "UnboundLocalError"

\* the key _handle_api_error marks: get_current_key()
failing_key == find_working_key(current_key_index, cleanup_cooldowns, api_keys)

\* failed_keys after mark_key_as_failed(current_key)
failed_after_mark == cleanup_cooldowns \cup {failing_key}

\* the key _create_llm() then gets: get_current_key() after rotate_key()
next_llm_key == find_working_key(rotate_key(failing_key), failed_after_mark, api_keys)

\* RobustLLM(api_keys, ...): the key manager, then _create_llm()
NewRobustLLM ==
    /\ api_keys = 0
    /\ \E n \in 1..MaxKeys, duration \in 1..MaxKeyCooldown :
          /\ api_keys' = n
          /\ cooldown_duration' = duration
          /\ usable_at_get' = 0..(n - 1)
    /\ current_key_index' = 0
    /\ failed_keys' = {}
    /\ key_cooldown' = EmptyDict
    /\ got_key' = 0
    /\ cooling_at_get' = {}
    /\ current_llm_key' = 0
    /\ UNCHANGED <<key_time, marked_at, keyCalls>>
    /\ UNCHANGED <<llm_pc, attempt, invocations, llm_error, last_outcome, marked, kickoffs>>
    /\ UNCHANGED <<baseVars, convVars, toolVars, trackerVars>>

\* a manager or worker step: crew.kickoff(), whose llm call enters wrapper;
\* an error of an earlier step has ended the orchestrate call
Kickoff ==
    /\ api_keys > 0
    /\ llm_pc \in {"idle", "returned"}
    /\ kickoffs < MaxKickoffs
    /\ kickoffs' = kickoffs + 1
    /\ llm_pc' = "calling"
    /\ attempt' = 0
    /\ invocations' = 0
    /\ marked' = <<>>
    /\ llm_error' = "none"
    /\ last_outcome' = "none"
    /\ UNCHANGED current_llm_key
    /\ UNCHANGED keyVars
    /\ UNCHANGED <<baseVars, convVars, toolVars, trackerVars>>

\* one iteration of "for attempt in range(max_retries)"
Attempt ==
    /\ llm_pc = "calling"
    /\ attempt < api_keys
    /\ attempt' = attempt + 1
    /\ invocations' = invocations + 1
    /\ \E llm_outcome \in {"ok", "rate_limit", "other_error"} :
          /\ last_outcome' = llm_outcome
          /\ IF llm_outcome = "ok"
             THEN /\ llm_pc' = "returned"
                  /\ UNCHANGED <<llm_error, marked, current_llm_key, keyVars>>
             ELSE IF is_rate_limit_error(llm_outcome)
             THEN \* _handle_api_error returns True: continue
                  /\ failed_keys' = failed_after_mark
                  /\ key_cooldown' =
                        [key \in ((DOMAIN key_cooldown) \cap cleanup_cooldowns)
                                    \cup {failing_key} |->
                            IF key = failing_key THEN key_time ELSE key_cooldown[key]]
                  /\ marked_at' = [marked_at EXCEPT ![failing_key] = key_time]
                  /\ current_key_index' = next_llm_key
                  /\ got_key' = next_llm_key
                  /\ usable_at_get' = Keys \ failed_after_mark
                  /\ cooling_at_get' = CoolingKeys \cup {failing_key}
                  /\ current_llm_key' = next_llm_key
                  /\ marked' = Append(marked, failing_key)
                  /\ UNCHANGED <<llm_pc, llm_error>>
                  /\ UNCHANGED <<api_keys, cooldown_duration, key_time, keyCalls>>
             ELSE \* raise e
                  /\ llm_pc' = "raised"
                  /\ llm_error' = llm_outcome
                  /\ UNCHANGED <<marked, current_llm_key, keyVars>>
    /\ UNCHANGED kickoffs
    /\ UNCHANGED <<baseVars, convVars, toolVars, trackerVars>>

\* the loop ran out: the statements after it
Exhausted ==
    /\ llm_pc = "calling"
    /\ attempt = api_keys
    /\ llm_pc' = "raised"
    /\ llm_error' = after_loop_error
    /\ UNCHANGED <<attempt, invocations, current_llm_key, last_outcome, marked, kickoffs>>
    /\ UNCHANGED keyVars
    /\ UNCHANGED <<baseVars, convVars, toolVars, trackerVars>>

LLMNext ==
    \/ NewRobustLLM
    \/ Kickoff
    \/ Attempt
    \/ Exhausted
    \/ KeyTick

\* one orchestrate() call of orchestrator.py
Spec == OrchInit /\ [][OrchNext]_vars

\* one orchestrate() call of orchestrator_enhanced.py
EnhancedSpec == OrchInit /\ [][EnhancedNext]_vars

\* one orchestrate() call of main.py
MainSpec == OrchInit /\ [][MainNext]_vars

\* register() and register_agents() calls on the empty registry
RegistrySpec == OrchInit /\ [][RegistryNext]_vars

\* calls of match_example_request
MatchSpec == OrchInit /\ [][MatchNext]_vars

\* callers of update_now on one gate
GateSpec == GateInit /\ [][GateNext]_vars

\* one call of check_convergence
ConvSpec == OrchInit /\ [][CheckConvergence]_vars

\* queries of the three data-backed tools
ToolSpec == OrchInit /\ [][ToolNext]_vars

\* two runs of the enhanced orchestrate sharing the tracker
TrackerSpec == OrchInit /\ [][TrackerNext]_vars

\* one orchestrate() call of orchestrator_enhanced.py among concurrent ones
ConcurrentSpec == OrchInit /\ [][ConcurrentNext]_vars

\* calls on one APIKeyManager
KeySpec == OrchInit /\ [][KeyNext]_vars

\* steps whose llm calls go through one RobustLLM
LLMSpec == OrchInit /\ [][LLMNext]_vars

(***************************************************************************)
(* Properties of orchestrate (checked under Spec).                         *)
(***************************************************************************)
ManagerEntries(h) == {i \in 1..Len(h) : h[i].agent = "ManagerAgent"}

StopEntries(h) == {i \in ManagerEntries(h) : IsStop(h[i].output)}

\* C1: once the manager has decided stop=true or next_agent="END" no further
\* manager or worker step runs, only the summarizer may follow, the number of
\* manager decisions is the index of that decision, and every map orchestrate
\* returns (after the stopping decision or after an earlier convergence)
\* has a GeneralQAAgent key.
C1_TerminationOnStop ==
    /\ \A i \in StopEntries(history) :
          /\ pc = "done"
          /\ Cardinality(ManagerEntries(history)) = managerCalls
          /\ \A j \in ManagerEntries(history) : j <= i
          /\ \A j \in (i + 1)..Len(history) : history[j].agent = "GeneralQAAgent"
    /\ (pc = "done" /\ endedBy \in {"stop", "convergence"})
          => "GeneralQAAgent" \in DOMAIN returned

\* C2: whenever the loop has terminated successfully (stop/END or convergence)
\* the final output map has a GeneralQAAgent entry.
C2_SummarizerEntry ==
    (pc = "done" /\ endedBy \in {"stop", "convergence"})
        => "GeneralQAAgent" \in DOMAIN final_outputs

\* the last 2 run_history outputs of agents other than manager and summarizer
\* exist and are equal
LastTwoWorkerOutputsEqual(h) ==
    LET outs == ReversedWorkerOutputs(h)
    IN  Len(outs) >= 2 /\ outs[1] = outs[2]

\* C3: at the top of the loop, when the last 2 worker outputs are equal, the
\* step taken is the convergence fallback: the run ends by convergence and
\* neither the manager nor a worker is invoked.
C3_ConvergencePriority ==
    [][(pc = "loop" /\ LastTwoWorkerOutputsEqual(history))
         => /\ pc' = "done"
            /\ endedBy' = "convergence"
            /\ managerCalls' = managerCalls
            /\ workerCalls' = workerCalls]_vars

\* a run that ended by convergence right after the second equal worker output
C3_Witness ==
    /\ pc = "done"
    /\ endedBy = "convergence"
    /\ managerCalls = 2
    /\ workerCalls = 2

\* C4: when the manager named an agent that is not registered, the worker step
\* raises an error carrying that name and the registered agent names, writes
\* nothing to final_outputs or run_history, invokes no worker, and nothing is
\* executed after the error (no retry).
C4_UnknownAgent ==
    [][/\ pc # "error"
       /\ (pc = "loop" /\ next_agent_name # "ManagerAgent"
             /\ next_agent_name \notin AGENT_REGISTRY)
            => /\ pc' = "error"
               /\ error'.kind = "ValueError"
               /\ error'.name = next_agent_name
               /\ error'.available = AGENT_REGISTRY
               /\ final_outputs' = final_outputs
               /\ history' = history
               /\ workerCalls' = workerCalls
               /\ returned' = NotReturned]_vars

\* orchestrate has raised for the unregistered name after an earlier worker ran
C4_Witness ==
    /\ pc = "error"
    /\ error.kind = "ValueError"
    /\ error.name = "NoSuchAgent"
    /\ workerCalls >= 1

(***************************************************************************)
(* Properties of SmartDBUpdater (checked under GateSpec).                  *)
(***************************************************************************)
\* at most one caller is between setting UPDATE_IN_PROGRESS and clearing it
MutualExclusion ==
    /\ Cardinality({t \in Threads : InRefresh(t)}) <= 1
    /\ UPDATE_IN_PROGRESS <=> (\E t \in Threads : InRefresh(t))

\* the call of t invoked the refresh callback
Invoked(t) == outcome[t] # "none"

\* C5 as stated: at most one caller in the refresh at any instant, and of two
\* overlapping calls (with a callback registered and a cooldown > 0) exactly
\* one invokes the callback and the other returns false without invoking it.
C5_OverlappingCalls ==
    /\ MutualExclusion
    /\ \A a \in Threads : \A b \in Threads \ {a} :
          (update_function /\ cooldown_seconds > 0
             /\ tpc[a] = "returned" /\ tpc[b] = "returned"
             /\ b \in overlapped[a])
            => \/ Invoked(a) /\ ~Invoked(b) /\ result[b] = "False"
               \/ Invoked(b) /\ ~Invoked(a) /\ result[a] = "False"

\* C5 (amended): at most one caller is in the refresh at any instant, and a
\* call that makes its in-progress check while another caller is in the
\* refresh returns false without invoking the callback.
C5_MutualExclusion ==
    /\ MutualExclusion
    /\ \A t \in Threads :
          busyAtCheck[t] => /\ tpc[t] = "returned"
                            /\ result[t] = "False"
                            /\ ~Invoked(t)

\* a caller was turned away while the other one was inside the callback
C5_Witness ==
    \E a \in Threads : \E b \in Threads \ {a} :
        /\ busyAtCheck[a]
        /\ result[a] = "False"
        /\ InRefresh(b)
        /\ Invoked(b)

\* C6: a call whose callback raised ends with the exception raised to the
\* caller, never with a normal return value.
C6_CallbackExceptionPropagates ==
    \A t \in Threads :
        (tpc[t] = "returned" /\ outcome[t] = "raise") => result[t] = "raised"

\* C7: with a cooldown > 0, an unforced call whose cooldown check happens less
\* than the cooldown after a successful unforced update returns false without
\* invoking the callback and without changing UPDATE_COUNT; the successful
\* call invoked the callback and raised UPDATE_COUNT by exactly 1.
C7_CooldownBlocks ==
    [][\A t \in Threads :
          /\ (/\ tpc[t] = "check_cooldown"
              /\ tpc'[t] # "check_cooldown"
              /\ ~force[t]
              /\ cooldown_seconds > 0
              /\ lastUnforcedOk # NoTime
              /\ now - lastUnforcedOk < cooldown_seconds)
               => /\ tpc'[t] = "returned"
                  /\ result'[t] = "False"
                  /\ outcome'[t] = "none"
                  /\ callbackRuns' = callbackRuns
                  /\ UPDATE_COUNT' = UPDATE_COUNT
          /\ (result[t] # "True" /\ result'[t] = "True")
               => /\ Invoked(t)
                  /\ callbackRuns' = callbackRuns
                  /\ UPDATE_COUNT' = countAtMark[t] + 1]_vars

\* one unforced update succeeded and a later unforced call was turned away by
\* the cooldown: one callback run, UPDATE_COUNT = 1
C7_Witness ==
    \E t \in Threads :
        /\ tpc[t] = "returned"
        /\ ~force[t]
        /\ ~busyAtCheck[t]
        /\ result[t] = "False"
        /\ ~Invoked(t)
        /\ cooldown_seconds > 0
        /\ lastUnforcedOk # NoTime
        /\ now - lastUnforcedOk < cooldown_seconds
        /\ callbackRuns = 1
        /\ UPDATE_COUNT = 1

\* C8: a call whose callback raised or returned a non-"success" status record
\* never changes LAST_UPDATE_TIME or UPDATE_COUNT.
C8_FailedRefreshKeepsTimestamp ==
    [][\A t \in Threads :
          (outcome[t] \in {"raise", "error_status"} /\ tpc'[t] # tpc[t])
            => /\ LAST_UPDATE_TIME' = LAST_UPDATE_TIME
               /\ UPDATE_COUNT' = UPDATE_COUNT]_vars

\* C9: a call that finds UPDATE_IN_PROGRESS true at its check returns false
\* at once, forced or not, without invoking the callback and without changing
\* LAST_UPDATE_TIME, UPDATE_COUNT or UPDATE_IN_PROGRESS.
C9_InProgressSkips ==
    [][\A t \in Threads :
          (tpc[t] = "check_progress" /\ tpc'[t] # "check_progress" /\ UPDATE_IN_PROGRESS)
            => /\ tpc'[t] = "returned"
               /\ result'[t] = "False"
               /\ outcome'[t] = "none"
               /\ callbackRuns' = callbackRuns
               /\ LAST_UPDATE_TIME' = LAST_UPDATE_TIME
               /\ UPDATE_COUNT' = UPDATE_COUNT
               /\ UPDATE_IN_PROGRESS']_vars

\* a forced call was turned away while a refresh was running
C9_Witness ==
    \E t \in Threads :
        /\ tpc[t] = "returned"
        /\ force[t]
        /\ busyAtCheck[t]
        /\ result[t] = "False"
        /\ UPDATE_IN_PROGRESS

\* C10 as stated: should_update() is true exactly when no update has completed
\* or the elapsed time is strictly greater than the cooldown.
C10_StrictlyGreater ==
    [][can_update_now' \notin {"unset", can_update_now}
         => can_update_now' = PyBool(\/ LAST_UPDATE_TIME = NoTime
                                     \/ now - LAST_UPDATE_TIME > cooldown_seconds)]_vars

\* C10 (amended): should_update() is true exactly when no update has completed
\* or the elapsed time is at least the cooldown; it changes no gate state.
C10_ShouldUpdate ==
    [][can_update_now' \notin {"unset", can_update_now}
         => /\ can_update_now' = PyBool(\/ LAST_UPDATE_TIME = NoTime
                                        \/ now - LAST_UPDATE_TIME >= cooldown_seconds)
            /\ UNCHANGED <<LAST_UPDATE_TIME, UPDATE_COUNT, UPDATE_IN_PROGRESS,
                           update_lock, cooldown_seconds, tpc>>]_vars

\* should_update() answered true exactly one cooldown after the last update
C10_Witness ==
    /\ can_update_now = "True"
    /\ cooldown_seconds > 0
    /\ LAST_UPDATE_TIME # NoTime
    /\ now - LAST_UPDATE_TIME = cooldown_seconds

(***************************************************************************)
(* Properties of manager decisions, convergence and filter_output          *)
(* (checked under Spec).                                                   *)
(***************************************************************************)
\* C11: a manager decision that lacks one of next_agent, next_task_description
\* and stop is fatal: once the run history holds such a decision, orchestrate
\* has raised.
C11_MalformedDecisionFatal ==
    \A i \in ManagerEntries(history) :
        DOMAIN history[i].output # DecisionFields => pc = "error"

\* the first two manager decisions selected the same agent and it returned the
\* same output both times
SameWorkerTwice(h) ==
    /\ Len(h) >= 4
    /\ h[1].agent = "ManagerAgent"
    /\ h[2].agent # "ManagerAgent"
    /\ h[3].agent = "ManagerAgent"
    /\ h[4].agent = h[2].agent
    /\ h[4].output = h[2].output

\* entries of workers: neither manager, nor summarizer, nor the System marker
WorkerEntries(h) ==
    {i \in 1..Len(h) : h[i].agent \notin {"ManagerAgent", "GeneralQAAgent", "System"}}

\* C12 as stated: when the manager selected the same worker (an agent other
\* than the summarizer) twice with identical output, the run stops by convergence after exactly two manager
\* decisions and run_history holds at most 2 worker entries followed only by
\* the summarizer entry.
C12_OnlySummarizerFollows ==
    (SameWorkerTwice(history) /\ history[2].agent # "GeneralQAAgent")
      => \/ pc = "loop" /\ Len(history) = 4
         \/ /\ pc = "done"
            /\ endedBy = "convergence"
            /\ managerCalls = 2
            /\ Cardinality(WorkerEntries(history)) <= 2
            /\ \A j \in 5..Len(history) : history[j].agent = "GeneralQAAgent"

\* C12 (amended): when the first two manager decisions selected the same
\* worker other than GeneralQAAgent and it returned identical output both
\* times, the run stops by convergence after exactly two manager decisions
\* and two worker invocations, and run_history is those four entries, then the
\* summarizer entry when that output is not None, then the System entry.
C12_ConvergenceShape ==
    (SameWorkerTwice(history) /\ history[2].agent # "GeneralQAAgent")
      => /\ managerCalls = 2
         /\ workerCalls = 2
         /\ \/ pc = "loop" /\ Len(history) = 4
            \/ /\ pc = "done"
               /\ endedBy = "convergence"
               /\ WorkerEntries(history) = {2, 4}
               /\ LET tail == SubSeq(history, 5, Len(history))
                  IN  IF Truthy(history[4].output)
                      THEN /\ Len(tail) = 2
                           /\ tail[1].agent = "GeneralQAAgent"
                           /\ tail[2].agent = "System"
                      ELSE /\ Len(tail) = 1
                           /\ tail[1].agent = "System"

\* the data agent was selected twice, answered the same both times, and the
\* run ended with the summary and the System entry
C12_Witness ==
    /\ pc = "done"
    /\ endedBy = "convergence"
    /\ SameWorkerTwice(history)
    /\ history[2].agent = "FusionAnalyticsAgent"
    /\ Len(history) = 6

\* agents whose output contract carries a rendered table
DataQueryAgents ==
    {"FusionAnalyticsAgent", "AbsenceAnalyticsAgent", "OrgChartAgent", "SQLBuilderAgent"}

\* C13: the map orchestrate returns after the loop has exactly the keys of
\* final_outputs; the navigation agent's value is its navigation_link, a
\* data-query agent's value is its HTML_TABLE_DATA, every other agent's value
\* is its response field (null for a null output).
C13_FilterOutput ==
    (pc = "done" /\ endedBy \in {"stop", "convergence"})
      => /\ DOMAIN returned = DOMAIN final_outputs
         /\ \A a \in DOMAIN final_outputs :
               returned[a] =
                  IF final_outputs[a] = NoneValue THEN PyNone
                  ELSE IF a = "PageNavigatorAgent"
                       THEN Get(final_outputs[a], "navigation_link")
                  ELSE IF a \in DataQueryAgents
                       THEN Get(final_outputs[a], "HTML_TABLE_DATA")
                  ELSE Get(final_outputs[a], "response")

(***************************************************************************)
(* Properties of the registry (checked under RegistrySpec).                *)
(***************************************************************************)
\* C14: after register_agents the keys of get_agent_descriptions are the
\* registered names without "ManagerAgent".
C14_ManagerExcluded ==
    lastCall.op = "register_agents"
      => DOMAIN agent_descriptions(registry) = (DOMAIN registry) \ {"ManagerAgent"}

\* C15: a register call leaves exactly one entry under its name, carrying the
\* handler, output contract and description of that call, and leaves every
\* other entry alone; a call with the arguments of the call before it leaves
\* the registry as it was; the keys of get_agent_descriptions are registered
\* names.
C15_LatestRegistrationWins ==
    [][(lastCall'.op = "register" /\ regCalls' = regCalls + 1)
         => LET name == registered_name(lastCall')
            IN  /\ DOMAIN registry' = (DOMAIN registry) \cup {name}
                /\ registry'[name].agent = lastCall'.agent
                /\ registry'[name].output = lastCall'.output
                /\ registry'[name].description = lastCall'.description
                /\ \A n \in (DOMAIN registry) \ {name} : registry'[n] = registry[n]
                /\ lastCall' = lastCall => registry' = registry
                /\ DOMAIN agent_descriptions(registry') \subseteq DOMAIN registry']_vars

\* two register calls went to the same name
C15_Witness ==
    /\ regCalls = 2
    /\ lastCall.op = "register"
    /\ Cardinality(DOMAIN registry) = 1
    /\ registry[registered_name(lastCall)].description = lastCall.description

(***************************************************************************)
(* Properties of the conversation history and of the fast path.            *)
(***************************************************************************)
\* C16 (Spec): past the fast path, conversation_history is the formatted
\* caller history when that has at most MAX_MESSAGES turns, and otherwise the
\* formatted last MAX_MESSAGES turns in their order; trim_history ran once,
\* and every manager and worker step received that same value.
C16_TrimmedHistory ==
    (pc # "start" /\ matched_example = 0)
      => LET h == history_at_call
             n == Len(h)
             kept == IF n <= MAX_MESSAGES THEN h
                     ELSE [i \in 1..MAX_MESSAGES |-> h[n - MAX_MESSAGES + i]]
         IN  /\ conversation_history = format_conversation_history(kept)
             /\ Len(conversation_history) <= MAX_MESSAGES
             /\ trimCalls = 1
             /\ passed_history \subseteq {conversation_history}
             /\ managerCalls > 0 => passed_history = {conversation_history}

\* a caller history longer than MAX_MESSAGES was cut to its tail and a worker
\* step has received it
C16_Witness ==
    /\ Len(history_at_call) > MAX_MESSAGES
    /\ Len(conversation_history) = MAX_MESSAGES
    /\ conversation_history[1].content = Len(history_at_call) - MAX_MESSAGES + 1
    /\ workerCalls >= 1
    /\ passed_history = {conversation_history}

\* C17 as stated (EnhancedSpec): a run that ends otherwise than by a completed
\* stop or convergence fallback ends with an error and returns nothing.
C17_OnlyCleanTermination ==
    (pc \in {"done", "error"} /\ endedBy \notin {"stop", "convergence"})
      => /\ pc = "error"
         /\ error # NoError
         /\ returned = NotReturned

\* C17 (amended, EnhancedSpec): orchestrate returns the filtered output map
\* after a completed stop or convergence fallback; with user interaction
\* enabled, a worker response that asks for information ends the run with a
\* needs_input result whose partial_outputs is the output map written so far,
\* that worker's output included; every other end of a run is an error that
\* returns nothing.
C17_PartialOutputsOnNeedsInput ==
    /\ pc \in {"start", "loop", "error"} => returned = NotReturned
    /\ pc = "error" => error # NoError
    /\ pc = "done" => endedBy \in {"stop", "convergence", "needs_input"}
    /\ (pc = "done" /\ endedBy \in {"stop", "convergence"})
          => returned = filter_output(final_outputs)
    /\ (pc = "done" /\ endedBy = "needs_input")
          => /\ ENABLE_USER_INTERACTION
             /\ returned.status = "needs_input"
             /\ returned.partial_outputs = final_outputs
             /\ history[Len(history)].agent \in DOMAIN returned.partial_outputs
             /\ returned.partial_outputs[history[Len(history)].agent]
                   = history[Len(history)].output
             /\ returned.question = response_text(history[Len(history)].output)

\* the data agent asked for the department and the caller got needs_input
\* together with that agent's output
C17_Witness ==
    /\ pc = "done"
    /\ endedBy = "needs_input"
    /\ "FusionAnalyticsAgent" \in DOMAIN returned.partial_outputs
    /\ returned.partial_outputs["FusionAnalyticsAgent"] # NoneValue

\* C18 (MainSpec): the list the caller passed as conversation_history holds
\* after the call what it held before it.
C18_CallerHistoryUnchanged ==
    caller_history = history_at_call

\* C19 (Spec): when the matcher returned an example, orchestrate has returned
\* that example's output map, and there was no manager decision, no worker
\* invocation, no summarizer call, and no write to run_history or to the final
\* output map.
C19_FastPath ==
    matched_example # 0
      => /\ pc = "done"
         /\ endedBy = "example"
         /\ returned = examples[matched_example].filtered_output
         /\ managerCalls = 0
         /\ workerCalls = 0
         /\ summarizerCalls = 0
         /\ history = <<>>
         /\ final_outputs = EmptyDict
         /\ passed_history = {}

\* the second example matched a caller with a conversation history
C19_Witness ==
    /\ matched_example = 2
    /\ pc = "done"
    /\ "SQLBuilderAgent" \in DOMAIN returned
    /\ Len(history_at_call) > 0

\* C20 (MatchSpec): match_example_request returns None exactly when no example
\* has a ratio of at least the threshold; otherwise it returns the earliest
\* example of maximal ratio.
C20_MatchExample ==
    LET n == Len(match_ratios)
        meets == {i \in 1..n : match_ratios[i] >= match_threshold}
    IN  IF meets = {}
        THEN match_result = 0
        ELSE /\ match_result \in 1..n
             /\ \A j \in 1..n : match_ratios[j] <= match_ratios[match_result]
             /\ \A j \in 1..(match_result - 1) :
                   match_ratios[j] < match_ratios[match_result]

(***************************************************************************)
(* Properties of check_convergence (checked under ConvSpec).               *)
(***************************************************************************)
WorkerEntriesOf(h) == SelectSeq(h, IsWorkerEntry)

\* at least N worker entries, and the N most recent worker outputs are equal
LastWorkerOutputsEqual(h, N) ==
    LET w == WorkerEntriesOf(h)
    IN  /\ Len(w) >= N
        /\ \A i \in (Len(w) - N + 1)..Len(w) : w[i].output = w[Len(w)].output

\* C21: check_convergence(history, N) is true exactly when the history holds
\* at least N entries of agents other than ManagerAgent and GeneralQAAgent and
\* the N most recent such outputs are all equal, for every history, histories
\* without manager entries included.
C21_ConvergenceIff ==
    conv_result # "unset" =>
        ((conv_result = "True") <=> LastWorkerOutputsEqual(conv_history, conv_N))

\* history[i] was written by a worker step: the entry before it is a manager
\* decision that did not stop and named this agent
WorkerEntryAt(h, i) ==
    /\ i > 1
    /\ h[i].agent # "ManagerAgent"
    /\ h[i - 1].agent = "ManagerAgent"
    /\ ~IsStop(h[i - 1].output)
    /\ Get(h[i - 1].output, "next_agent") = h[i].agent

\* history[i] was written while the run terminated: the summary or the
\* System entry of handle_convergence
TerminationEntryAt(h, i) ==
    /\ h[i].agent \in {"GeneralQAAgent", "System"}
    /\ ~WorkerEntryAt(h, i)

\* C22: the first history entry is a manager decision; every worker entry
\* directly follows a manager decision that named that worker and is directly
\* followed by a manager entry or by the termination of the run, so no two
\* worker entries are consecutive.
C22_ManagerWorkerAlternation ==
    /\ Len(history) > 0 => history[1].agent = "ManagerAgent"
    /\ \A i \in 1..Len(history) :
          history[i].agent # "ManagerAgent" =>
             \/ WorkerEntryAt(history, i)
             \/ /\ pc # "loop"
                /\ \A j \in i..Len(history) : TerminationEntryAt(history, j)
    /\ \A i \in 1..(Len(history) - 1) :
          WorkerEntryAt(history, i) =>
             \/ history[i + 1].agent = "ManagerAgent"
             \/ pc # "loop" /\ TerminationEntryAt(history, i + 1)
    /\ (pc = "loop" /\ Len(history) > 0 /\ WorkerEntryAt(history, Len(history)))
          => next_agent_name = "ManagerAgent"

\* two worker steps with the manager decision between them
C22_Witness ==
    /\ Len(history) >= 4
    /\ WorkerEntryAt(history, 2)
    /\ history[3].agent = "ManagerAgent"
    /\ WorkerEntryAt(history, 4)

(***************************************************************************)
(* Properties of the data-backed query tools (checked under ToolSpec).     *)
(***************************************************************************)
\* C23: a query of a tool made less than the cooldown after a query of the
\* same tool triggered a successful refresh triggers no refresh, and a query
\* that refreshes triggers exactly one refresh.
C23_OneRefreshPerWindow ==
    last_query.tool # "none" =>
        /\ last_query.in_window => last_query.refreshes = 0
        /\ last_query.refreshes <= 1

\* the state of the gate a tool consults
GateView(tool) ==
    [last_update |-> gate_last[GateOf(tool)], update_count |-> gate_count[GateOf(tool)]]

\* C24: the gates of different data sources have independent state: a query
\* of one tool leaves the gate of every other tool as it was.
C24_IndependentGates ==
    [][\A t \in Tools :
          (queries' # queries /\ last_query'.tool # t) => GateView(t)' = GateView(t)]_vars

(***************************************************************************)
(* Properties of IterationTracker (checked under TrackerSpec).             *)
(***************************************************************************)
\* C26: with two interleaved runs, the track_internal a run gets back from
\* end_agent_execution holds only iterations recorded during that run's own
\* agent execution.
C26_OwnIterationsOnly ==
    \A r \in Runs :
        run_pc[r] = "ended" =>
            \A i \in 1..Len(track_internal[r]) : track_internal[r][i].by = r

\* C28: end_agent_execution always returns, also when it is called while an
\* iteration is active: no caller is left blocked inside it.
C28_EndAgentExecutionReturns ==
    \A r \in Runs : run_pc[r] # "deadlocked"

(***************************************************************************)
(* Properties of concurrent enhanced orchestrate calls (ConcurrentSpec).   *)
(***************************************************************************)
\* C27: a call orchestrate(..., interactive=False) never returns a
\* needs_input result, also when another call with interactive=True runs
\* at the same time.
C27_NonInteractiveNeverAsks ==
    (module = "orchestrator_enhanced" /\ ~interactive) => endedBy # "needs_input"

(***************************************************************************)
(* Properties of APIKeyManager (checked under KeySpec).                    *)
(***************************************************************************)
\* C29: current_key_index stays within 0..len(api_keys)-1; get_current_key
\* returns a key that is not failed whenever one exists; and a key marked
\* failed is not returned, while another key is usable, before its cooldown
\* has passed.
C29_KeyRotation ==
    api_keys > 0 =>
        /\ current_key_index \in Keys
        /\ got_key # NoKey =>
              /\ got_key \in Keys
              /\ usable_at_get # {} => got_key \in usable_at_get
              /\ usable_at_get # {} => got_key \notin cooling_at_get

\* get_current_key passed over a key that was marked failed and is still
\* cooling, and returned another one
C29_Witness ==
    /\ got_key # NoKey
    /\ cooling_at_get # {}
    /\ got_key \in usable_at_get
    /\ got_key # 0

(***************************************************************************)
(* Properties of RobustLLM (checked under LLMSpec).                        *)
(***************************************************************************)
\* C25 as stated: a step invokes its underlying decision function exactly
\* once, and a failure of that call ends the step without another attempt.
C25_SingleInvocation ==
    llm_pc # "idle" => invocations <= 1

\* C25: a step calls kickoff once and an error ends the orchestrate call
\* without another step; within the step the llm call is made again only
\* after a rate-limit error, at most len(api_keys) times in all, and any
\* other error ends the step at its first occurrence.
C25_RetryOnlyOnRateLimit ==
    /\ [](llm_pc # "idle" =>
            /\ invocations <= api_keys
            /\ invocations >= 2 => Len(marked) >= invocations - 1
            /\ last_outcome = "other_error" =>
                  llm_pc = "raised" /\ llm_error = "other_error")
    /\ [][llm_pc = "raised" => kickoffs' = kickoffs]_vars

\* a call that succeeded on a retry
C25_Witness ==
    /\ llm_pc = "returned"
    /\ invocations >= 2

\* C30: one call invokes the LLM method at most len(api_keys) times; it
\* retries only after a rate-limit error, having marked the current key
\* failed and rotated to another key; another error is re-raised at once
\* without marking a key; when every attempt hit a rate limit the call
\* raises "All API keys exhausted".
C30_BoundedRotation ==
    llm_pc # "idle" =>
        /\ invocations <= api_keys
        /\ llm_pc = "calling" =>
              /\ Len(marked) = invocations
              /\ (Len(marked) > 0 /\ failed_keys # Keys) =>
                    /\ current_llm_key \notin failed_keys
                    /\ current_llm_key # marked[Len(marked)]
        /\ llm_pc = "returned" => Len(marked) = invocations - 1
        /\ (llm_pc = "raised" /\ last_outcome = "other_error") =>
              /\ llm_error = "other_error"
              /\ Len(marked) = invocations - 1
        /\ (llm_pc = "raised" /\ last_outcome = "rate_limit") =>
              /\ invocations = api_keys
              /\ llm_error = "All API keys exhausted"

====
